---- MODULE Spec2Model ----
(***************************************************************************)
(* Model of the design-canvas server (appdotbuilder/ai-design-canvas).     *)
(*                                                                         *)
(* Part 1: the prompt interpreter of handlers/ai_generate_elements.ts:     *)
(* parsePrompt, getColorFromPrompt, extractTextContent and                 *)
(* adjustElementsForContext.                                               *)
(* Part 2: the handlers over the three tables of db/schema.ts, one call at  *)
(* a time (Spec).                                                          *)
(* Part 3: aiGenerateElements (SpecConcurrent), and updateElement and      *)
(* updateCanvas (SpecUpdates), statement by statement with two calls in    *)
(* flight.                                                                 *)
(*                                                                         *)
(* Representation.                                                         *)
(*  - A JavaScript string is a sequence of one-character strings, so that  *)
(*    toLowerCase, includes and the regular expression of                  *)
(*    extractTextContent are computed character by character.              *)
(*  - A number is an integer count of thousandths (150 is 150000): canvas  *)
(*    sizes have at most two decimals (numeric(10,2)), their halves at     *)
(*    most three, so every quantity of the interpreter is exact.           *)
(*  - An object is a record; an optional property that is absent is a      *)
(*    field that is not in the record's DOMAIN.                            *)
(***************************************************************************)
EXTENDS Integers, Sequences, FiniteSets, TLC

VARIABLES
    prompt,            \* input.prompt
    canvasWidth,       \* parseFloat(canvasData.width), in thousandths
    canvasHeight,      \* parseFloat(canvasData.height), in thousandths
    contextElements,   \* the context elements the request resolved
    elementsToCreate,  \* parsePrompt's result
    adjustedElements,  \* adjustElementsForContext's result
    pc,                \* position in the interpreter's run
    canvasTable,         \* the rows of table canvases
    canvasElementsTable, \* the rows of table canvas_elements
    chatMessagesTable,   \* the rows of table chat_messages
    now,               \* the clock read by new Date() and defaultNow()
    issued,            \* the ids randomUUID() has returned so far
    response,          \* the last handler call: its name, input and outcome
    served,            \* the number of handler calls served so far
    calls              \* the aiGenerateElements calls in progress, by caller

vars == <<prompt, canvasWidth, canvasHeight, contextElements,
          elementsToCreate, adjustedElements, pc,
          canvasTable, canvasElementsTable, chatMessagesTable,
          now, issued, response, served, calls>>

\* The state of one interpreter run, and the state of the server.
interpreterVars == <<prompt, canvasWidth, canvasHeight, contextElements,
                     elementsToCreate, adjustedElements, pc>>

serverVars == <<canvasTable, canvasElementsTable, chatMessagesTable,
                now, issued, response, served, calls>>

----------------------------------------------------------------------------
(* Numbers *)

\* The number n (an integer literal of the source) in thousandths.
Milli(n) == n * 1000

\* Math.min
MathMin(a, b) == IF a <= b THEN a ELSE b

----------------------------------------------------------------------------
(* Strings *)

UpperCaseLetters ==
    <<"A","B","C","D","E","F","G","H","I","J","K","L","M",
      "N","O","P","Q","R","S","T","U","V","W","X","Y","Z">>

LowerCaseLetters ==
    <<"a","b","c","d","e","f","g","h","i","j","k","l","m",
      "n","o","p","q","r","s","t","u","v","w","x","y","z">>

\* The lower-case letter of each upper-case letter.
lowerCaseOf ==
    [c \in {UpperCaseLetters[i] : i \in 1..26} |->
        LowerCaseLetters[CHOOSE i \in 1..26 : UpperCaseLetters[i] = c]]

\* String.prototype.toLowerCase on one character.
toLowerCaseChar(c) == IF c \in DOMAIN lowerCaseOf THEN lowerCaseOf[c] ELSE c

\* String.prototype.toLowerCase
toLowerCase(s) == [i \in 1..Len(s) |-> toLowerCaseChar(s[i])]

\* String.prototype.includes: k occurs in s as a contiguous substring.
includes(s, k) ==
    \E i \in 0..(Len(s) - Len(k)) : \A j \in 1..Len(k) : s[i + j] = k[j]

\* The keywords parsePrompt looks for.
kwRectangle == <<"r","e","c","t","a","n","g","l","e">>
kwBox == <<"b","o","x">>
kwSquare == <<"s","q","u","a","r","e">>
kwCircle == <<"c","i","r","c","l","e">>
kwRound == <<"r","o","u","n","d">>
kwLine == <<"l","i","n","e">>
kwText == <<"t","e","x","t">>
kwLabel == <<"l","a","b","e","l">>
kwTitle == <<"t","i","t","l","e">>
kwRounded == <<"r","o","u","n","d","e","d">>
kwLarge == <<"l","a","r","g","e">>
kwBold == <<"b","o","l","d">>

\* 'Sample Text'
SampleText == <<"S","a","m","p","l","e"," ","T","e","x","t">>

----------------------------------------------------------------------------
(* getColorFromPrompt *)

\* colorMap, in insertion order (the order Object.entries iterates in).
colorMap ==
    << [name |-> <<"r","e","d">>,                 hex |-> "#EF4444"],
       [name |-> <<"b","l","u","e">>,             hex |-> "#3B82F6"],
       [name |-> <<"g","r","e","e","n">>,         hex |-> "#10B981"],
       [name |-> <<"y","e","l","l","o","w">>,     hex |-> "#F59E0B"],
       [name |-> <<"p","u","r","p","l","e">>,     hex |-> "#8B5CF6"],
       [name |-> <<"p","i","n","k">>,             hex |-> "#EC4899"],
       [name |-> <<"o","r","a","n","g","e">>,     hex |-> "#F97316"],
       [name |-> <<"g","r","a","y">>,             hex |-> "#6B7280"],
       [name |-> <<"b","l","a","c","k">>,         hex |-> "#000000"],
       [name |-> <<"w","h","i","t","e">>,         hex |-> "#FFFFFF"] >>

\* The for loop over Object.entries(colorMap), from entry i on: the first
\* entry whose name the prompt includes returns its hex; falling out of the
\* loop returns the default blue.
RECURSIVE colorLoop(_, _)
colorLoop(p, i) ==
    IF i > Len(colorMap) THEN "#3B82F6"
    ELSE IF includes(p, colorMap[i].name) THEN colorMap[i].hex
    ELSE colorLoop(p, i + 1)

\* getColorFromPrompt falling back to black (a mutant: the wrong default).
getColorFromPromptDefaultBlack(p) ==
    IF \E i \in 1..Len(colorMap) : includes(p, colorMap[i].name)
    THEN colorLoop(p, 1)
    ELSE "#000000"

\* The index in p of the first occurrence of k, Len(p) + 1 if there is none.
firstIndexOf(p, k) ==
    IF includes(p, k)
    THEN CHOOSE i \in 1..Len(p) :
            /\ i + Len(k) - 1 <= Len(p)
            /\ SubSeq(p, i, i + Len(k) - 1) = k
            /\ \A h \in 1..(i - 1) : SubSeq(p, h, h + Len(k) - 1) /= k
    ELSE Len(p) + 1

\* getColorFromPrompt returning the colour named first in the prompt (a
\* mutant: the prompt scanned left to right instead of the palette).
getColorFromPromptByPosition(p) ==
    IF \E i \in 1..Len(colorMap) : includes(p, colorMap[i].name)
    THEN colorMap[CHOOSE i \in 1..Len(colorMap) :
                    /\ includes(p, colorMap[i].name)
                    /\ \A j \in 1..Len(colorMap) :
                         includes(p, colorMap[j].name) =>
                            firstIndexOf(p, colorMap[i].name)
                                <= firstIndexOf(p, colorMap[j].name)].hex
    ELSE "#3B82F6"

getColorFromPrompt(p) == colorLoop(p, 1)

----------------------------------------------------------------------------
(* extractTextContent *)

isQuote(c) == c = "\"" \/ c = "'"

\* The end (exclusive) of the longest run of non-quote characters of s that
\* starts at index i: what the greedy [^"']+ consumes.
RECURSIVE runEnd(_, _)
runEnd(s, i) ==
    IF i > Len(s) \/ isQuote(s[i]) THEN i ELSE runEnd(s, i + 1)

\* prompt.match(/["']([^"']+)["']/) tried at start index i and, failing
\* there, at i + 1, ...: <<>> for null, else <<whole match, group 1>>.
\* At i the pattern matches iff s[i] is a quote, the run of non-quotes after
\* it is not empty, and the character ending the run is a quote (giving back
\* characters of the run never helps: the next one is then no quote).
RECURSIVE matchFrom(_, _)
matchFrom(s, i) ==
    IF i > Len(s) THEN <<>>
    ELSE LET e == runEnd(s, i + 1)
         IN IF isQuote(s[i]) /\ e > i + 1 /\ e <= Len(s)
            THEN <<SubSeq(s, i, e), SubSeq(s, i + 1, e - 1)>>
            ELSE matchFrom(s, i + 1)

\* extractTextContent: <<>> models null, <<c>> the string c.
extractTextContent(p) ==
    LET matches == matchFrom(p, 1)
    IN IF matches /= <<>> THEN <<matches[2]>> ELSE <<>>

\* extractTextContent(prompt) || 'Sample Text': null and '' are falsy.
contentOrSample(p) ==
    LET r == extractTextContent(p)
    IN IF r = <<>> \/ r[1] = <<>> THEN SampleText ELSE r[1]

----------------------------------------------------------------------------
(* parsePrompt *)

\* rectangleElement testing 'round' where the source tests 'rounded' (a
\* mutant: the wrong keyword).
rectangleElementRound(lowerPrompt, centerX, centerY) ==
    LET isSquare == includes(lowerPrompt, kwSquare)
        dimensions == IF isSquare
                      THEN [width |-> Milli(100), height |-> Milli(100)]
                      ELSE [width |-> Milli(150), height |-> Milli(100)]
    IN [ type |-> "rectangle",
         canvasId |-> "",
         position |-> [x |-> centerX - dimensions.width \div 2,
                       y |-> centerY - dimensions.height \div 2],
         dimensions |-> dimensions,
         fill |-> [color |-> getColorFromPrompt(lowerPrompt), opacity |-> Milli(1)],
         stroke |-> [color |-> "#000000", width |-> Milli(2), opacity |-> Milli(1),
                     cap |-> "butt", join |-> "miter"],
         rectangleProps |->
             [borderRadius |-> IF includes(lowerPrompt, kwRound)
                               THEN Milli(10) ELSE Milli(0)] ]

\* The element pushed by the rectangle/box/square branch.
rectangleElement(lowerPrompt, centerX, centerY) ==
    LET isSquare == includes(lowerPrompt, kwSquare)
        dimensions == IF isSquare
                      THEN [width |-> Milli(100), height |-> Milli(100)]
                      ELSE [width |-> Milli(150), height |-> Milli(100)]
    IN [ type |-> "rectangle",
         canvasId |-> "",
         position |-> [x |-> centerX - dimensions.width \div 2,
                       y |-> centerY - dimensions.height \div 2],
         dimensions |-> dimensions,
         fill |-> [color |-> getColorFromPrompt(lowerPrompt), opacity |-> Milli(1)],
         stroke |-> [color |-> "#000000", width |-> Milli(2), opacity |-> Milli(1),
                     cap |-> "butt", join |-> "miter"],
         rectangleProps |->
             [borderRadius |-> IF includes(lowerPrompt, kwRounded)
                               THEN Milli(10) ELSE Milli(0)] ]

\* circleElement positioned at the midpoint itself (a mutant: the radius not
\* subtracted).
circleElementAtCenter(lowerPrompt, centerX, centerY) ==
    LET radius == Milli(50)
    IN [ type |-> "circle",
         canvasId |-> "",
         position |-> [x |-> centerX, y |-> centerY],
         dimensions |-> [width |-> radius * 2, height |-> radius * 2],
         fill |-> [color |-> getColorFromPrompt(lowerPrompt), opacity |-> Milli(1)],
         stroke |-> [color |-> "#000000", width |-> Milli(2), opacity |-> Milli(1),
                     cap |-> "butt", join |-> "miter"] ]

\* circleElement with the radius taken for the diameter (a mutant: a circle
\* of 50 x 50 around the midpoint).
circleElementOfRadiusSize(lowerPrompt, centerX, centerY) ==
    LET radius == Milli(50)
    IN [ type |-> "circle",
         canvasId |-> "",
         position |-> [x |-> centerX - radius \div 2, y |-> centerY - radius \div 2],
         dimensions |-> [width |-> radius, height |-> radius],
         fill |-> [color |-> getColorFromPrompt(lowerPrompt), opacity |-> Milli(1)],
         stroke |-> [color |-> "#000000", width |-> Milli(2), opacity |-> Milli(1),
                     cap |-> "butt", join |-> "miter"] ]

\* The element pushed by the circle/round branch.
circleElement(lowerPrompt, centerX, centerY) ==
    LET radius == Milli(50)
    IN [ type |-> "circle",
         canvasId |-> "",
         position |-> [x |-> centerX - radius, y |-> centerY - radius],
         dimensions |-> [width |-> radius * 2, height |-> radius * 2],
         fill |-> [color |-> getColorFromPrompt(lowerPrompt), opacity |-> Milli(1)],
         stroke |-> [color |-> "#000000", width |-> Milli(2), opacity |-> Milli(1),
                     cap |-> "butt", join |-> "miter"] ]

\* lineElement that also fills with the prompt's colour (a mutant: the fill
\* of the other branches copied into the line branch).
lineElementFilled(lowerPrompt, centerX, centerY) ==
    LET startX == centerX - Milli(75)
        startY == centerY
        endX == centerX + Milli(75)
        endY == centerY
    IN [ type |-> "line",
         canvasId |-> "",
         position |-> [x |-> MathMin(startX, endX), y |-> MathMin(startY, endY)],
         fill |-> [color |-> getColorFromPrompt(lowerPrompt), opacity |-> Milli(1)],
         stroke |-> [color |-> getColorFromPrompt(lowerPrompt), width |-> Milli(3),
                     opacity |-> Milli(1), cap |-> "round", join |-> "miter"],
         lineProps |-> [x1 |-> startX, y1 |-> startY, x2 |-> endX, y2 |-> endY] ]

\* The element pushed by the line branch.
lineElement(lowerPrompt, centerX, centerY) ==
    LET startX == centerX - Milli(75)
        startY == centerY
        endX == centerX + Milli(75)
        endY == centerY
    IN [ type |-> "line",
         canvasId |-> "",
         position |-> [x |-> MathMin(startX, endX), y |-> MathMin(startY, endY)],
         stroke |-> [color |-> getColorFromPrompt(lowerPrompt), width |-> Milli(3),
                     opacity |-> Milli(1), cap |-> "round", join |-> "miter"],
         lineProps |-> [x1 |-> startX, y1 |-> startY, x2 |-> endX, y2 |-> endY] ]

\* textElement testing 'large' before 'title' (a mutant: the conditional's
\* tests in the other order).
textElementLargeFirst(p, lowerPrompt, centerX, centerY) ==
    LET content == contentOrSample(p)
        fontSize == IF includes(lowerPrompt, kwLarge) THEN Milli(20)
                    ELSE IF includes(lowerPrompt, kwTitle) THEN Milli(24)
                    ELSE Milli(16)
    IN [ type |-> "text",
         canvasId |-> "",
         position |-> [x |-> centerX - Milli(50), y |-> centerY],
         dimensions |-> [width |-> Milli(200), height |-> (fontSize * 3) \div 2],
         fill |-> [color |-> getColorFromPrompt(lowerPrompt), opacity |-> Milli(1)],
         textStyle |-> [fontFamily |-> "Arial",
                        fontSize |-> fontSize,
                        fontWeight |-> IF includes(lowerPrompt, kwBold) THEN 700 ELSE 400,
                        textAlign |-> "left",
                        lineHeight |-> 1200],
         textProps |-> [content |-> content] ]

\* The element pushed by the text/label/title branch. fontSize * 1.5 is
\* fontSize * 3 / 2; fontWeight is an integer, not a length.
textElement(p, lowerPrompt, centerX, centerY) ==
    LET content == contentOrSample(p)
        fontSize == IF includes(lowerPrompt, kwTitle) THEN Milli(24)
                    ELSE IF includes(lowerPrompt, kwLarge) THEN Milli(20)
                    ELSE Milli(16)
    IN [ type |-> "text",
         canvasId |-> "",
         position |-> [x |-> centerX - Milli(50), y |-> centerY],
         dimensions |-> [width |-> Milli(200), height |-> (fontSize * 3) \div 2],
         fill |-> [color |-> getColorFromPrompt(lowerPrompt), opacity |-> Milli(1)],
         textStyle |-> [fontFamily |-> "Arial",
                        fontSize |-> fontSize,
                        fontWeight |-> IF includes(lowerPrompt, kwBold) THEN 700 ELSE 400,
                        textAlign |-> "left",
                        lineHeight |-> 1200],
         textProps |-> [content |-> content] ]

\* defaultElement with the stroke of the rectangle branch (a mutant: the
\* branch copied without its own stroke colour).
defaultElementBlackStroke(centerX, centerY) ==
    [ type |-> "rectangle",
      canvasId |-> "",
      position |-> [x |-> centerX - Milli(75), y |-> centerY - Milli(50)],
      dimensions |-> [width |-> Milli(150), height |-> Milli(100)],
      fill |-> [color |-> "#3B82F6", opacity |-> Milli(1)],
      stroke |-> [color |-> "#000000", width |-> Milli(2), opacity |-> Milli(1),
                  cap |-> "butt", join |-> "miter"],
      rectangleProps |-> [borderRadius |-> Milli(0)] ]

\* The default rectangle pushed when no branch pushed anything.
defaultElement(centerX, centerY) ==
    [ type |-> "rectangle",
      canvasId |-> "",
      position |-> [x |-> centerX - Milli(75), y |-> centerY - Milli(50)],
      dimensions |-> [width |-> Milli(150), height |-> Milli(100)],
      fill |-> [color |-> "#3B82F6", opacity |-> Milli(1)],
      stroke |-> [color |-> "#1E40AF", width |-> Milli(2), opacity |-> Milli(1),
                  cap |-> "butt", join |-> "miter"],
      rectangleProps |-> [borderRadius |-> Milli(0)] ]

\* parsePrompt with the circle branch's "&& !elements.length" left out
\* (a mutant: a rectangle prompt that also names a circle yields two elements).
parsePromptUnguardedCircle(p, width, height) ==
    LET lowerPrompt == toLowerCase(p)
        centerX == width \div 2
        centerY == height \div 2
        elements1 ==
            IF \/ includes(lowerPrompt, kwRectangle)
               \/ includes(lowerPrompt, kwBox)
               \/ includes(lowerPrompt, kwSquare)
            THEN <<rectangleElement(lowerPrompt, centerX, centerY)>>
            ELSE <<>>
        elements2 ==
            IF includes(lowerPrompt, kwCircle) \/ includes(lowerPrompt, kwRound)
            THEN Append(elements1, circleElement(lowerPrompt, centerX, centerY))
            ELSE elements1
        elements3 ==
            IF includes(lowerPrompt, kwLine) /\ Len(elements2) = 0
            THEN Append(elements2, lineElement(lowerPrompt, centerX, centerY))
            ELSE elements2
        elements4 ==
            IF /\ \/ includes(lowerPrompt, kwText)
                  \/ includes(lowerPrompt, kwLabel)
                  \/ includes(lowerPrompt, kwTitle)
               /\ Len(elements3) = 0
            THEN Append(elements3, textElement(p, lowerPrompt, centerX, centerY))
            ELSE elements3
    IN IF Len(elements4) = 0
       THEN <<defaultElement(centerX, centerY)>>
       ELSE elements4

\* parsePrompt: the five if statements in order, each appending to the
\* elements array built so far (elementsN is the array after the Nth if).
parsePrompt(p, width, height) ==
    LET lowerPrompt == toLowerCase(p)
        centerX == width \div 2
        centerY == height \div 2
        elements0 == <<>>
        elements1 ==
            IF \/ includes(lowerPrompt, kwRectangle)
               \/ includes(lowerPrompt, kwBox)
               \/ includes(lowerPrompt, kwSquare)
            THEN Append(elements0, rectangleElement(lowerPrompt, centerX, centerY))
            ELSE elements0
        elements2 ==
            IF /\ includes(lowerPrompt, kwCircle) \/ includes(lowerPrompt, kwRound)
               /\ Len(elements1) = 0
            THEN Append(elements1, circleElement(lowerPrompt, centerX, centerY))
            ELSE elements1
        elements3 ==
            IF includes(lowerPrompt, kwLine) /\ Len(elements2) = 0
            THEN Append(elements2, lineElement(lowerPrompt, centerX, centerY))
            ELSE elements2
        elements4 ==
            IF /\ \/ includes(lowerPrompt, kwText)
                  \/ includes(lowerPrompt, kwLabel)
                  \/ includes(lowerPrompt, kwTitle)
               /\ Len(elements3) = 0
            THEN Append(elements3, textElement(p, lowerPrompt, centerX, centerY))
            ELSE elements3
        elements5 ==
            IF Len(elements4) = 0
            THEN Append(elements4, defaultElement(centerX, centerY))
            ELSE elements4
    IN elements5

----------------------------------------------------------------------------
(* adjustElementsForContext *)

\* adjustElementsForContext with one offset per context element (a mutant:
\* the shift made to grow with the context).
adjustElementsForContextPerElement(elements, context, width, height) ==
    IF Len(context) = 0 THEN elements
    ELSE LET offset == Milli(50) * Len(context)
         IN [i \in 1..Len(elements) |->
                [elements[i] EXCEPT
                    !.position = [x |-> elements[i].position.x + offset + (i - 1) * Milli(20),
                                  y |-> elements[i].position.y + offset + (i - 1) * Milli(20)]]]

\* elements.map((element, index) => ...): index is 0-based, so the element
\* at sequence index i has index i - 1. The spread keeps every other field.
adjustElementsForContext(elements, context, width, height) ==
    IF Len(context) = 0 THEN elements
    ELSE LET offset == Milli(50)
         IN [i \in 1..Len(elements) |->
                [elements[i] EXCEPT
                    !.position = [x |-> elements[i].position.x + offset + (i - 1) * Milli(20),
                                  y |-> elements[i].position.y + offset + (i - 1) * Milli(20)]]]

----------------------------------------------------------------------------
(* The inputs of a run *)

\* Bound: a prompt is the concatenation of at most MaxFragments fragments.
MaxFragments == 2

\* The prompt of the handler's colour test.
AddARedCircle == <<"A","d","d"," ","a"," ","r","e","d"," ","c","i","r","c","l","e">>

\* The fragments prompts are built from: every keyword and colour name of
\* the interpreter, mixed-case spellings, quoted pieces (matching, mixed and
\* empty quotes, a lone quote), text that matches nothing, and prompts of the
\* handler's tests. Fragments are concatenated with no
\* separator, so keywords also arise across fragment borders.
Fragments ==
    { kwRectangle, kwBox, kwSquare, kwCircle, kwRound, kwLine,
      kwText, kwLabel, kwTitle, kwRounded, kwLarge, kwBold }
    \cup { colorMap[i].name : i \in 1..Len(colorMap) }
    \cup { <<"R","e","d">>,
           <<"B","O","X">>,
           <<"\"","T","i","t","l","e","\"">>,
           <<"\"","H","i","\"">>,
           <<"'","G","o","'">>,
           <<"\"","i","t","'","s","\"">>,
           <<"\"">>,
           <<"x","y","z">>,
           <<"p","i","n","k"," ","t","e","x","t">>,
           <<"g","r","a","y"," ","b","o","x">>,
           AddARedCircle }

\* The prompts of at most n fragments; the empty prompt is the one of none.
RECURSIVE PromptsUpTo(_)
PromptsUpTo(n) ==
    IF n = 0 THEN { <<>> }
    ELSE LET shorter == PromptsUpTo(n - 1)
         IN shorter \cup { q \o f : q \in shorter, f \in Fragments }

Prompts == PromptsUpTo(MaxFragments)

\* Canvas sizes <<width, height>> in thousandths: the default 1920 x 1080, and
\* a small canvas with odd hundredths, 100.01 x 60.50, whose midpoint
\* (50.005, 30.25) puts elements at negative and three-decimal coordinates.
CanvasSizes == { <<1920000, 1080000>>, <<100010, 60500>> }

\* Context elements as the handler resolves them (convertToCanvasElement):
\* a rectangle at (100, 100) of 50 x 50, and a line at (-20, 700.5) with no
\* dimensions.
contextRectangle ==
    [ id |-> "e1", type |-> "rectangle",
      position |-> [x |-> Milli(100), y |-> Milli(100)],
      dimensions |-> [width |-> Milli(50), height |-> Milli(50)] ]

contextLine ==
    [ id |-> "e2", type |-> "line",
      position |-> [x |-> 0 - Milli(20), y |-> 700500] ]

ContextChoices ==
    { <<>>, <<contextRectangle>>, <<contextLine, contextRectangle>> }

----------------------------------------------------------------------------
(* The interpreter's run: parsePrompt, then adjustElementsForContext *)

InitInterpreter ==
    /\ prompt \in Prompts
    /\ \E size \in CanvasSizes : canvasWidth = size[1] /\ canvasHeight = size[2]
    /\ contextElements \in ContextChoices
    /\ elementsToCreate = <<>>
    /\ adjustedElements = <<>>
    /\ pc = "start"
    /\ canvasTable = {}
    /\ canvasElementsTable = {}
    /\ chatMessagesTable = {}
    /\ now = 0
    /\ issued = {}
    /\ response = [op |-> "none"]
    /\ served = 0
    /\ calls = <<>>

\* const elementsToCreate = parsePrompt(input.prompt, canvasWidth, canvasHeight)
ParsePrompt ==
    /\ pc = "start"
    /\ elementsToCreate' = parsePrompt(prompt, canvasWidth, canvasHeight)
    /\ pc' = "parsed"
    /\ UNCHANGED <<prompt, canvasWidth, canvasHeight, contextElements, adjustedElements>>
    /\ UNCHANGED serverVars

\* const adjustedElements = adjustElementsForContext(elementsToCreate, contextElements, ...)
AdjustElements ==
    /\ pc = "parsed"
    /\ adjustedElements' =
           adjustElementsForContext(elementsToCreate, contextElements,
                                    canvasWidth, canvasHeight)
    /\ pc' = "done"
    /\ UNCHANGED <<prompt, canvasWidth, canvasHeight, contextElements, elementsToCreate>>
    /\ UNCHANGED serverVars

NextInterpreter == ParsePrompt \/ AdjustElements

SpecInterpreter == InitInterpreter /\ [][NextInterpreter]_vars

----------------------------------------------------------------------------
(* Part 2: the tables of db/schema.ts and the handlers over them *)

\* null, in a handler's input: a nullable property is Null or <<v>> for the
\* value v, and is outside the input's DOMAIN when undefined. In a table row
\* a column that is NULL is outside the row's DOMAIN.
Null == <<>>

\* The record with no field.
Empty == [k \in {} |-> TRUE]

\* The fields S of the record f.
Restrict(f, S) == [k \in S |-> f[k]]

\* A numeric(10,2) column holds hundredths: storing n.toString() (n in
\* thousandths) rounds to two decimals, half away from zero.
numeric(n) == IF n >= 0 THEN (n + 5) \div 10 ELSE 0 - ((5 - n) \div 10)

\* parseFloat of a numeric(10,2) column's text: hundredths to thousandths.
parseFloat(column) == column * 10

\* The jsonb columns of canvas_elements.
JsonColumns ==
    {"fill", "stroke", "textStyle", "rectangleProps", "lineProps", "textProps"}

\* The values randomUUID() returns, in the order it returns them. Version-4
\* UUIDs are taken to be unique; ids are only ever compared for equality, so
\* which unused value comes back is immaterial.
UUIDs == <<"u1", "u2", "u3", "u4", "u5", "u6", "u7", "u8">>

\* An id no record has.
MissingId == "no-such-id"

\* The outcome of a handler call: the value it returns or the error it throws.
Returned(op, input, value) ==
    [op |-> op, input |-> input, ok |-> TRUE, value |-> value]

Thrown(op, input, message) ==
    [op |-> op, input |-> input, ok |-> FALSE, error |-> message]

\* setColumns writing every nullable text and jsonb column (a mutant: a
\* column the call does not supply is set to NULL like one it supplies as
\* null, so that another call's value is lost).
setColumnsNullingOmitted(row, updateData) ==
    LET nullable == JsonColumns \cup {"description"}
        written == {col \in DOMAIN updateData : updateData[col] /= Null}
    IN [col \in (DOMAIN row \ nullable) \cup written |->
            IF col \in written THEN updateData[col][1] ELSE row[col]]

\* db.update(table).set(updateData).where(eq(table.id, id)): the row with
\* the columns of updateData overwritten; a column set to null becomes NULL.
setColumns(row, updateData) ==
    LET nulled == {col \in DOMAIN updateData : updateData[col] = Null}
        written == DOMAIN updateData \ nulled
    IN [col \in (DOMAIN row \ nulled) \cup written |->
            IF col \in written THEN updateData[col][1] ELSE row[col]]

\* {...canvas, width: parseFloat(canvas.width), ...}
convertCanvas(canvas) ==
    [canvas EXCEPT !.width = parseFloat(canvas.width),
                   !.height = parseFloat(canvas.height),
                   !.zoom = parseFloat(canvas.zoom),
                   !.panX = parseFloat(canvas.panX),
                   !.panY = parseFloat(canvas.panY)]

\* convertToCanvasElement, and the same conversion inlined in createElement
\* and updateElement.
convertToCanvasElement(dbElement) ==
    [ id |-> dbElement.id,
      type |-> dbElement.type,
      canvasId |-> dbElement.canvasId,
      position |-> [x |-> parseFloat(dbElement.positionX),
                    y |-> parseFloat(dbElement.positionY)],
      zIndex |-> dbElement.zIndex,
      visible |-> dbElement.visible,
      locked |-> dbElement.locked,
      createdAt |-> dbElement.createdAt,
      updatedAt |-> dbElement.updatedAt ]
    @@ (IF "width" \in DOMAIN dbElement /\ "height" \in DOMAIN dbElement
        THEN [dimensions |-> [width |-> parseFloat(dbElement.width),
                              height |-> parseFloat(dbElement.height)]]
        ELSE Empty)
    @@ Restrict(dbElement, JsonColumns \cap DOMAIN dbElement)

\* generatedValues storing 0 for a missing width and height (a mutant:
\* '|| 0' for '|| null').
generatedValuesZeroSize(elementInput, elementId, canvasId) ==
    [ id |-> elementId,
      type |-> elementInput.type,
      canvasId |-> canvasId,
      positionX |-> numeric(elementInput.position.x),
      positionY |-> numeric(elementInput.position.y),
      zIndex |-> IF "zIndex" \in DOMAIN elementInput THEN elementInput.zIndex ELSE 0,
      visible |-> IF "visible" \in DOMAIN elementInput THEN elementInput.visible ELSE TRUE,
      locked |-> IF "locked" \in DOMAIN elementInput THEN elementInput.locked ELSE FALSE ]
    @@ (IF "dimensions" \in DOMAIN elementInput
        THEN [width |-> numeric(elementInput.dimensions.width),
              height |-> numeric(elementInput.dimensions.height)]
        ELSE [width |-> numeric(0), height |-> numeric(0)])
    @@ Restrict(elementInput, JsonColumns \cap DOMAIN elementInput)

\* generatedValues keeping the draft's canvasId (a mutant: canvasId:
\* elementInput.canvasId, which parsePrompt leaves '', for input.canvasId).
generatedValuesDraftCanvas(elementInput, elementId, canvasId) ==
    [ id |-> elementId,
      type |-> elementInput.type,
      canvasId |-> elementInput.canvasId,
      positionX |-> numeric(elementInput.position.x),
      positionY |-> numeric(elementInput.position.y),
      zIndex |-> IF "zIndex" \in DOMAIN elementInput THEN elementInput.zIndex ELSE 0,
      visible |-> IF "visible" \in DOMAIN elementInput THEN elementInput.visible ELSE TRUE,
      locked |-> IF "locked" \in DOMAIN elementInput THEN elementInput.locked ELSE FALSE ]
    @@ (IF "dimensions" \in DOMAIN elementInput
        THEN [width |-> numeric(elementInput.dimensions.width),
              height |-> numeric(elementInput.dimensions.height)]
        ELSE Empty)
    @@ Restrict(elementInput, JsonColumns \cap DOMAIN elementInput)

\* The .values({...}) of aiGenerateElements' insert, for one adjusted draft.
generatedValues(elementInput, elementId, canvasId) ==
    [ id |-> elementId,
      type |-> elementInput.type,
      canvasId |-> canvasId,
      positionX |-> numeric(elementInput.position.x),
      positionY |-> numeric(elementInput.position.y),
      zIndex |-> IF "zIndex" \in DOMAIN elementInput THEN elementInput.zIndex ELSE 0,
      visible |-> IF "visible" \in DOMAIN elementInput THEN elementInput.visible ELSE TRUE,
      locked |-> IF "locked" \in DOMAIN elementInput THEN elementInput.locked ELSE FALSE ]
    @@ (IF "dimensions" \in DOMAIN elementInput
        THEN [width |-> numeric(elementInput.dimensions.width),
              height |-> numeric(elementInput.dimensions.height)]
        ELSE Empty)
    @@ Restrict(elementInput, JsonColumns \cap DOMAIN elementInput)

\* createdAt and updatedAt: timestamp(...).defaultNow()
insertedAt(values) == values @@ [createdAt |-> now, updatedAt |-> now]

\* selectCanvas with the where clause left out (a mutant: every canvas is
\* selected).
selectCanvasNoWhere(id) == canvasTable

\* db.select().from(canvasTable).where(eq(canvasTable.id, id))
selectCanvas(id) == {canvas \in canvasTable : canvas.id = id}

\* selectContext with no where clause on the canvas (a mutant: the named
\* elements of every canvas).
selectContextAnyCanvas(rows, input) ==
    LET named == {input.contextElementIds[i] : i \in 1..Len(input.contextElementIds)}
    IN {convertToCanvasElement(el) : el \in {r \in rows : r.id \in named}}

\* selectContext with the filter on the named ids left out (a mutant: every
\* element of the canvas is context).
selectContextUnfiltered(rows, input) ==
    {convertToCanvasElement(el) : el \in {r \in rows : r.canvasId = input.canvasId}}

\* selectContext giving no context unless every named id resolves (a mutant:
\* every for some, so that one unresolved id discards the context).
selectContextAllOrNone(rows, input) ==
    LET contextResults == {el \in rows : el.canvasId = input.canvasId}
        named == {input.contextElementIds[i] : i \in 1..Len(input.contextElementIds)}
    IN IF \A id \in named : \E el \in contextResults : el.id = id
       THEN {convertToCanvasElement(el) : el \in {r \in contextResults : r.id \in named}}
       ELSE {}

\* The elements of the canvas whose ids the request names, converted.
selectContext(rows, input) ==
    LET contextResults == {el \in rows : el.canvasId = input.canvasId}
        named == {input.contextElementIds[i] : i \in 1..Len(input.contextElementIds)}
    IN {convertToCanvasElement(el) : el \in {r \in contextResults : r.id \in named}}

\* The orders in which a select may return the rows S.
Orderings(S) ==
    {order \in [1..Cardinality(S) -> S] :
        \A i, j \in 1..Cardinality(S) : order[i] = order[j] => i = j}

\* if (input.contextElementIds && input.contextElementIds.length > 0)
hasContextIds(input) ==
    "contextElementIds" \in DOMAIN input /\ Len(input.contextElementIds) > 0

\* randomUUID replaced by an id made from the clock (a mutant: the
\* placeholder handlers' `element_${Date.now()}`).
randomUUIDOfClock(used) == UUIDs[now + 1]

\* randomUUID(), given the ids returned so far.
randomUUID(used) == UUIDs[Cardinality(used) + 1]

\* insertEach storing every draft twice (a mutant: the insert repeated).
RECURSIVE insertEachTwice(_, _, _)
insertEachTwice(adjusted, canvasId, used) ==
    IF adjusted = <<>> THEN <<>>
    ELSE LET elementId == randomUUID(used)
             again == randomUUID(used \cup {elementId})
         IN <<insertedAt(generatedValues(Head(adjusted), elementId, canvasId)),
              insertedAt(generatedValues(Head(adjusted), again, canvasId))>>
            \o insertEachTwice(Tail(adjusted), canvasId, used \cup {elementId, again})

\* for (const elementInput of adjustedElements) { randomUUID(); insert }: the
\* rows inserted, in order.
RECURSIVE insertEach(_, _, _)
insertEach(adjusted, canvasId, used) ==
    IF adjusted = <<>> THEN <<>>
    ELSE LET elementId == randomUUID(used)
         IN <<insertedAt(generatedValues(Head(adjusted), elementId, canvasId))>>
            \o insertEach(Tail(adjusted), canvasId, used \cup {elementId})

\* The .values({...}) of createCanvas' insert.
canvasValues(input, canvasId) ==
    [ id |-> canvasId,
      name |-> input.name,
      width |-> numeric(IF "width" \in DOMAIN input /\ input.width /= 0
                        THEN input.width ELSE Milli(1920)),
      height |-> numeric(IF "height" \in DOMAIN input /\ input.height /= 0
                         THEN input.height ELSE Milli(1080)),
      backgroundColor |-> IF "backgroundColor" \in DOMAIN input /\ input.backgroundColor /= ""
                          THEN input.backgroundColor ELSE "#FFFFFF",
      zoom |-> numeric(Milli(1)),
      panX |-> numeric(Milli(0)),
      panY |-> numeric(Milli(0)) ]
    @@ (IF /\ "description" \in DOMAIN input
           /\ input.description /= Null
           /\ input.description /= <<"">>
        THEN [description |-> input.description[1]]
        ELSE Empty)

\* elementValues with the canvasId of parsePrompt's drafts (a mutant:
\* canvasId: '' for canvasId: input.canvasId).
elementValuesDraftCanvas(input, elementId) ==
    [ id |-> elementId,
      type |-> input.type,
      canvasId |-> "",
      positionX |-> numeric(input.position.x),
      positionY |-> numeric(input.position.y),
      zIndex |-> IF "zIndex" \in DOMAIN input THEN input.zIndex ELSE 0,
      visible |-> IF "visible" \in DOMAIN input THEN input.visible ELSE TRUE,
      locked |-> IF "locked" \in DOMAIN input THEN input.locked ELSE FALSE ]
    @@ (IF "dimensions" \in DOMAIN input
        THEN [width |-> numeric(input.dimensions.width),
              height |-> numeric(input.dimensions.height)]
        ELSE Empty)
    @@ [col \in {c \in JsonColumns \cap DOMAIN input : input[c] /= Null} |->
            input[col][1]]

\* The .values({...}) of createElement's insert.
elementValues(input, elementId) ==
    [ id |-> elementId,
      type |-> input.type,
      canvasId |-> input.canvasId,
      positionX |-> numeric(input.position.x),
      positionY |-> numeric(input.position.y),
      zIndex |-> IF "zIndex" \in DOMAIN input THEN input.zIndex ELSE 0,
      visible |-> IF "visible" \in DOMAIN input THEN input.visible ELSE TRUE,
      locked |-> IF "locked" \in DOMAIN input THEN input.locked ELSE FALSE ]
    @@ (IF "dimensions" \in DOMAIN input
        THEN [width |-> numeric(input.dimensions.width),
              height |-> numeric(input.dimensions.height)]
        ELSE Empty)
    @@ [col \in {c \in JsonColumns \cap DOMAIN input : input[c] /= Null} |->
            input[col][1]]

\* elementUpdateData writing the defaults of visible and locked when the
\* input leaves them out (a mutant: createElement's defaults copied over).
elementUpdateDataDefaults(input) ==
    [updatedAt |-> <<now>>]
    @@ (IF "position" \in DOMAIN input
        THEN [positionX |-> <<numeric(input.position.x)>>,
              positionY |-> <<numeric(input.position.y)>>]
        ELSE Empty)
    @@ (IF "dimensions" \in DOMAIN input
        THEN [width |-> <<numeric(input.dimensions.width)>>,
              height |-> <<numeric(input.dimensions.height)>>]
        ELSE Empty)
    @@ [zIndex |-> <<IF "zIndex" \in DOMAIN input THEN input.zIndex ELSE 0>>,
        visible |-> <<IF "visible" \in DOMAIN input THEN input.visible ELSE TRUE>>,
        locked |-> <<IF "locked" \in DOMAIN input THEN input.locked ELSE FALSE>>]
    @@ Restrict(input, JsonColumns \cap DOMAIN input)

\* elementUpdateData testing the style properties for truth (a mutant:
\* 'if (input.fill)' for 'if (input.fill !== undefined)', so that null is
\* skipped like undefined).
elementUpdateDataSkipsNull(input) ==
    [updatedAt |-> <<now>>]
    @@ (IF "position" \in DOMAIN input
        THEN [positionX |-> <<numeric(input.position.x)>>,
              positionY |-> <<numeric(input.position.y)>>]
        ELSE Empty)
    @@ (IF "dimensions" \in DOMAIN input
        THEN [width |-> <<numeric(input.dimensions.width)>>,
              height |-> <<numeric(input.dimensions.height)>>]
        ELSE Empty)
    @@ [col \in {"zIndex", "visible", "locked"} \cap DOMAIN input |-> <<input[col]>>]
    @@ Restrict(input, {col \in JsonColumns \cap DOMAIN input : input[col] /= Null})

\* The updateData of updateElement.
elementUpdateData(input) ==
    [updatedAt |-> <<now>>]
    @@ (IF "position" \in DOMAIN input
        THEN [positionX |-> <<numeric(input.position.x)>>,
              positionY |-> <<numeric(input.position.y)>>]
        ELSE Empty)
    @@ (IF "dimensions" \in DOMAIN input
        THEN [width |-> <<numeric(input.dimensions.width)>>,
              height |-> <<numeric(input.dimensions.height)>>]
        ELSE Empty)
    @@ [col \in {"zIndex", "visible", "locked"} \cap DOMAIN input |-> <<input[col]>>]
    @@ Restrict(input, JsonColumns \cap DOMAIN input)

\* The updateData of updateCanvas.
canvasUpdateData(input) ==
    [updatedAt |-> <<now>>]
    @@ [col \in {"name", "backgroundColor"} \cap DOMAIN input |-> <<input[col]>>]
    @@ Restrict(input, {"description"} \cap DOMAIN input)
    @@ [col \in {"width", "height", "zoom", "panX", "panY"} \cap DOMAIN input |->
            <<numeric(input[col])>>]

\* The .values({...}) of createChatMessage's insert, and timestamp's defaultNow().
chatMessageValues(input, messageId) ==
    [ id |-> messageId,
      canvasId |-> input.canvasId,
      role |-> input.role,
      content |-> input.content,
      timestamp |-> now ]
    @@ Restrict(input, {"elementsCreated", "elementsModified"} \cap DOMAIN input)

\* deleteFrom with the where clause on the element's canvas (a mutant: every
\* element of the canvas of the named element is deleted).
deleteFromCanvasOf(rows, elementId) ==
    {el \in rows : \A named \in rows : named.id = elementId => el.canvasId /= named.canvasId}

\* db.delete(canvasElementsTable).where(eq(canvasElementsTable.id, elementId)):
\* the rows that remain.
deleteFrom(rows, elementId) == {el \in rows : el.id /= elementId}

\* orderByZIndexCreatedAt with the order by left out (a mutant: the rows in
\* any order).
orderByNothing(rows) == Orderings(rows)

\* .orderBy(asc(zIndex), asc(createdAt)): the orders in which the select may
\* return the rows; rows equal in both columns come in either order.
orderByZIndexCreatedAt(rows) ==
    {order \in Orderings(rows) :
        \A i, j \in 1..Cardinality(rows) :
            i < j => \/ order[i].zIndex < order[j].zIndex
                     \/ /\ order[i].zIndex = order[j].zIndex
                        /\ order[i].createdAt <= order[j].createdAt}

\* orderByTimestampDesc ordering oldest first (a mutant: asc for desc).
orderByTimestampAsc(rows) ==
    {order \in Orderings(rows) :
        \A i, j \in 1..Cardinality(rows) :
            i < j => order[i].timestamp <= order[j].timestamp}

\* .orderBy(desc(timestamp)): the orders in which the select may return the
\* rows; rows of one timestamp come in either order.
orderByTimestampDesc(rows) ==
    {order \in Orderings(rows) :
        \A i, j \in 1..Cardinality(rows) :
            i < j => order[i].timestamp >= order[j].timestamp}

\* messages.map(message => ({...})): a NULL elementsCreated or
\* elementsModified becomes undefined.
convertChatMessage(message) ==
    [ id |-> message.id,
      canvasId |-> message.canvasId,
      role |-> message.role,
      content |-> message.content,
      timestamp |-> message.timestamp ]
    @@ Restrict(message, {"elementsCreated", "elementsModified"} \cap DOMAIN message)

----------------------------------------------------------------------------
(* The handlers, one call at a time *)

\* Bound: a behaviour serves at most MaxCalls handler calls.
MaxCalls == 4

\* The readings of the clock: an instant and a later one, so that two calls
\* fall in the same instant or in different ones.
Instants == {0, 1}

\* The canvas widths and heights the calls below store.
CanvasWidths == {Milli(1920), 100500, Milli(800)}

CanvasHeights == {Milli(1080), 60500}

\* The prompts of generation requests: a circle, a line, and one that matches
\* no rule.
RequestPrompts ==
    { AddARedCircle,
      <<"g","r","e","e","n"," ">> \o kwLine,
      <<"x","y","z">> }

\* parsePrompt(input.prompt, canvasWidth, canvasHeight) for the requests and
\* canvas sizes above, computed once.
parsedPrompt ==
    [p \in RequestPrompts |->
        [width \in CanvasWidths |->
            [height \in CanvasHeights |-> parsePrompt(p, width, height)]]]

\* const canvasId = randomUUID(); db.insert(canvasTable).values(...).returning()
CreateCanvas(input) ==
    /\ served < MaxCalls
    /\ LET canvasId == randomUUID(issued)
           canvas == insertedAt(canvasValues(input, canvasId))
       IN /\ canvasTable' = canvasTable \cup {canvas}
          /\ issued' = issued \cup {canvasId}
          /\ response' = Returned("createCanvas", input, convertCanvas(canvas))
    /\ served' = served + 1
    /\ UNCHANGED <<canvasElementsTable, chatMessagesTable, now, calls>>
    /\ UNCHANGED interpreterVars

\* getCanvas(id)
GetCanvas(id) ==
    /\ served < MaxCalls
    /\ LET results == selectCanvas(id)
       IN IF results = {}
          THEN response' = Thrown("getCanvas", id, <<"Canvas with id ", id, " not found">>)
          ELSE \E canvas \in results :
                 response' = Returned("getCanvas", id, convertCanvas(canvas))
    /\ served' = served + 1
    /\ UNCHANGED <<canvasTable, canvasElementsTable, chatMessagesTable, now, issued, calls>>
    /\ UNCHANGED interpreterVars

\* updateCanvas(input)
UpdateCanvas(input) ==
    /\ served < MaxCalls
    /\ LET matched == selectCanvas(input.id)
           result == {setColumns(canvas, canvasUpdateData(input)) : canvas \in matched}
       IN /\ canvasTable' = (canvasTable \ matched) \cup result
          /\ IF result = {}
             THEN response' = Thrown("updateCanvas", input,
                                     <<"Canvas with id ", input.id, " not found">>)
             ELSE \E canvas \in result :
                    response' = Returned("updateCanvas", input, convertCanvas(canvas))
    /\ served' = served + 1
    /\ UNCHANGED <<canvasElementsTable, chatMessagesTable, now, issued, calls>>
    /\ UNCHANGED interpreterVars

\* createElement(input)
CreateElement(input) ==
    /\ served < MaxCalls
    /\ IF selectCanvas(input.canvasId) = {}
       THEN /\ response' = Thrown("createElement", input,
                                  <<"Canvas with id ", input.canvasId, " not found">>)
            /\ UNCHANGED <<canvasElementsTable, issued>>
       ELSE LET elementId == randomUUID(issued)
                element == insertedAt(elementValues(input, elementId))
            IN /\ canvasElementsTable' = canvasElementsTable \cup {element}
               /\ issued' = issued \cup {elementId}
               /\ response' = Returned("createElement", input,
                                       convertToCanvasElement(element))
    /\ served' = served + 1
    /\ UNCHANGED <<canvasTable, chatMessagesTable, now, calls>>
    /\ UNCHANGED interpreterVars

\* updateElement(input)
UpdateElement(input) ==
    /\ served < MaxCalls
    /\ LET matched == {element \in canvasElementsTable : element.id = input.id}
           result == {setColumns(element, elementUpdateData(input)) : element \in matched}
       IN /\ canvasElementsTable' = (canvasElementsTable \ matched) \cup result
          /\ IF result = {}
             THEN response' = Thrown("updateElement", input,
                                     <<"Element with id ", input.id, " not found">>)
             ELSE \E element \in result :
                    response' = Returned("updateElement", input,
                                         convertToCanvasElement(element))
    /\ served' = served + 1
    /\ UNCHANGED <<canvasTable, chatMessagesTable, now, issued, calls>>
    /\ UNCHANGED interpreterVars

\* createChatMessage(input)
CreateChatMessage(input) ==
    /\ served < MaxCalls
    /\ IF selectCanvas(input.canvasId) = {}
       THEN /\ response' = Thrown("createChatMessage", input,
                                  <<"Canvas with id ", input.canvasId, " not found">>)
            /\ UNCHANGED <<chatMessagesTable, issued>>
       ELSE LET messageId == randomUUID(issued)
                chatMessage == chatMessageValues(input, messageId)
            IN /\ chatMessagesTable' = chatMessagesTable \cup {chatMessage}
               /\ issued' = issued \cup {messageId}
               /\ response' = Returned("createChatMessage", input, chatMessage)
    /\ served' = served + 1
    /\ UNCHANGED <<canvasTable, canvasElementsTable, now, calls>>
    /\ UNCHANGED interpreterVars

\* aiGenerateElements(input), run with no other call in between.
AiGenerateElements(input) ==
    /\ served < MaxCalls
    /\ LET canvas == selectCanvas(input.canvasId)
       IN IF canvas = {}
          THEN /\ response' = Thrown("aiGenerateElements", input,
                                     <<"Canvas with ID ", input.canvasId, " not found">>)
               /\ UNCHANGED <<canvasElementsTable, issued>>
          ELSE \E canvasData \in canvas :
               \E context \in Orderings(IF hasContextIds(input)
                                        THEN selectContext(canvasElementsTable, input)
                                        ELSE {}) :
                 LET width == parseFloat(canvasData.width)
                     height == parseFloat(canvasData.height)
                     adjusted == adjustElementsForContext(
                                     parsedPrompt[input.prompt][width][height],
                                     context, width, height)
                     rows == insertEach(adjusted, input.canvasId, issued)
                 IN /\ canvasElementsTable' =
                          canvasElementsTable \cup {rows[i] : i \in 1..Len(rows)}
                    /\ issued' = issued \cup {rows[i].id : i \in 1..Len(rows)}
                    /\ response' =
                          Returned("aiGenerateElements", input,
                                   [i \in 1..Len(rows) |-> convertToCanvasElement(rows[i])])
    /\ served' = served + 1
    /\ UNCHANGED <<canvasTable, chatMessagesTable, now, calls>>
    /\ UNCHANGED interpreterVars

\* deleteElement(elementId)
DeleteElement(elementId) ==
    /\ served < MaxCalls
    /\ canvasElementsTable' = deleteFrom(canvasElementsTable, elementId)
    /\ response' = Returned("deleteElement", elementId, Null)
    /\ served' = served + 1
    /\ UNCHANGED <<canvasTable, chatMessagesTable, now, issued, calls>>
    /\ UNCHANGED interpreterVars

\* getCanvasElements(canvasId)
GetCanvasElements(canvasId) ==
    /\ served < MaxCalls
    /\ \E results \in orderByZIndexCreatedAt(
                         {el \in canvasElementsTable : el.canvasId = canvasId}) :
          response' = Returned("getCanvasElements", canvasId,
                               [i \in 1..Len(results) |-> convertToCanvasElement(results[i])])
    /\ served' = served + 1
    /\ UNCHANGED <<canvasTable, canvasElementsTable, chatMessagesTable, now, issued, calls>>
    /\ UNCHANGED interpreterVars

\* getChatMessages(canvasId)
GetChatMessages(canvasId) ==
    /\ served < MaxCalls
    /\ \E messages \in orderByTimestampDesc(
                          {m \in chatMessagesTable : m.canvasId = canvasId}) :
          response' = Returned("getChatMessages", canvasId,
                               [i \in 1..Len(messages) |-> convertChatMessage(messages[i])])
    /\ served' = served + 1
    /\ UNCHANGED <<canvasTable, canvasElementsTable, chatMessagesTable, now, issued, calls>>
    /\ UNCHANGED interpreterVars

\* Time passes.
Tick ==
    /\ now + 1 \in Instants
    /\ now' = now + 1
    /\ UNCHANGED <<canvasTable, canvasElementsTable, chatMessagesTable,
                   issued, response, served, calls>>
    /\ UNCHANGED interpreterVars

----------------------------------------------------------------------------
(* The calls a client makes *)

\* The ids a client can name: those of stored records, and one of no record.
CanvasIds == {canvas.id : canvas \in canvasTable}

ElementIds == {element.id : element \in canvasElementsTable}

\* createCanvas inputs: a name and an empty description, and every property
\* given (100.5 x 60.5).
CreateCanvasInputs ==
    { [name |-> "Canvas", description |-> <<"">>],
      [name |-> "Small", description |-> <<"notes">>, width |-> 100500,
       height |-> 60500, backgroundColor |-> "#F0F0F0"] }

\* updateCanvas inputs: nothing but the id, and a new name and width with a
\* null description; the latter also for a canvas that does not exist.
UpdateCanvasInputs ==
    { [id |-> id] : id \in CanvasIds }
    \cup { [id |-> id, name |-> "Renamed", width |-> Milli(800), description |-> Null]
           : id \in CanvasIds \cup {MissingId} }

\* createElement inputs: a filled rectangle with a three-decimal position,
\* also for a canvas that does not exist, and a hidden line with a null
\* stroke and no dimensions.
CreateElementInputs ==
    { [type |-> "rectangle", canvasId |-> id,
       position |-> [x |-> 10005, y |-> Milli(20)],
       dimensions |-> [width |-> Milli(30), height |-> Milli(40)],
       zIndex |-> 2,
       fill |-> <<[color |-> "#EF4444", opacity |-> Milli(1)]>>]
      : id \in CanvasIds \cup {MissingId} }
    \cup { [type |-> "line", canvasId |-> id,
            position |-> [x |-> Milli(0), y |-> Milli(0)],
            visible |-> FALSE,
            stroke |-> Null,
            lineProps |-> <<[x1 |-> Milli(0), y1 |-> Milli(0),
                             x2 |-> Milli(10), y2 |-> Milli(10)]>>]
           : id \in CanvasIds }

\* updateElement inputs: nothing but the id; a position and a zIndex, also
\* for an element that does not exist; dimensions, locked, and null for
\* fill, textStyle and lineProps with values for the other three style
\* properties; and the same six properties with null and value exchanged.
UpdateElementInputs ==
    { [id |-> id] : id \in ElementIds }
    \cup { [id |-> id, position |-> [x |-> Milli(5), y |-> 5555], zIndex |-> 3]
           : id \in ElementIds \cup {MissingId} }
    \cup { [id |-> id, dimensions |-> [width |-> Milli(10), height |-> Milli(10)],
            locked |-> TRUE,
            fill |-> Null,
            textStyle |-> Null,
            lineProps |-> Null,
            stroke |-> <<[color |-> "#111111", width |-> Milli(3), opacity |-> Milli(1),
                          cap |-> "round", join |-> "round"]>>,
            rectangleProps |-> <<[borderRadius |-> Milli(4)]>>,
            textProps |-> <<[content |-> "Label"]>>]
           : id \in ElementIds }
    \cup { [id |-> id,
            fill |-> <<[color |-> "#10B981", opacity |-> 500]>>,
            textStyle |-> <<[fontFamily |-> "Arial", fontSize |-> Milli(12),
                             fontWeight |-> 400, textAlign |-> "left",
                             lineHeight |-> 1200]>>,
            lineProps |-> <<[x1 |-> Milli(1), y1 |-> Milli(2),
                             x2 |-> Milli(3), y2 |-> Milli(4)]>>,
            stroke |-> Null,
            rectangleProps |-> Null,
            textProps |-> Null]
           : id \in ElementIds }

\* createChatMessage inputs.
CreateChatMessageInputs ==
    { [canvasId |-> id, role |-> "user", content |-> "Add a red circle"]
      : id \in CanvasIds \cup {MissingId} }

\* deleteElement ids: those of the stored elements, the id of no record, and
\* the id a deleteElement call has just been given (the same call again).
DeleteElementIds ==
    ElementIds \cup {MissingId}
    \cup (IF response.op = "deleteElement" THEN {response.input} ELSE {})

\* The ids S as a list, in the order of UUIDs.
RECURSIVE listOfIds(_)
listOfIds(S) ==
    IF S = {} THEN <<>>
    ELSE LET first == CHOOSE i \in 1..Len(UUIDs) :
                          UUIDs[i] \in S /\ \A j \in 1..(i - 1) : UUIDs[j] \notin S
         IN <<UUIDs[first]>> \o listOfIds(S \ {UUIDs[first]})

\* contextElementIds: the ids of all stored elements, of whatever canvas,
\* followed by the id of no record.
ContextIdLists == { listOfIds(ElementIds) \o <<MissingId>> }

\* Generation requests: each prompt with and without contextElementIds for
\* every stored canvas, one request with an empty list, and one request for
\* a canvas that does not exist.
AIGenerateRequests ==
    { [canvasId |-> id, prompt |-> p] : id \in CanvasIds, p \in RequestPrompts }
    \cup { [canvasId |-> id, prompt |-> AddARedCircle, contextElementIds |-> <<>>]
           : id \in CanvasIds }
    \cup { [canvasId |-> id, prompt |-> p, contextElementIds |-> ids]
           : id \in CanvasIds, p \in RequestPrompts, ids \in ContextIdLists }
    \cup { [canvasId |-> MissingId, prompt |-> AddARedCircle] }

----------------------------------------------------------------------------
(* The server *)

\* The server starts with empty tables.
Init ==
    /\ prompt = <<>>
    /\ canvasWidth = 0
    /\ canvasHeight = 0
    /\ contextElements = <<>>
    /\ elementsToCreate = <<>>
    /\ adjustedElements = <<>>
    /\ pc = "idle"
    /\ canvasTable = {}
    /\ canvasElementsTable = {}
    /\ chatMessagesTable = {}
    /\ now = 0
    /\ issued = {}
    /\ response = [op |-> "none"]
    /\ served = 0
    /\ calls = <<>>

Next ==
    \/ \E input \in CreateCanvasInputs : CreateCanvas(input)
    \/ \E id \in CanvasIds \cup {MissingId} : GetCanvas(id)
    \/ \E input \in UpdateCanvasInputs : UpdateCanvas(input)
    \/ \E input \in CreateElementInputs : CreateElement(input)
    \/ \E input \in UpdateElementInputs : UpdateElement(input)
    \/ \E input \in CreateChatMessageInputs : CreateChatMessage(input)
    \/ \E input \in AIGenerateRequests : AiGenerateElements(input)
    \/ \E id \in DeleteElementIds : DeleteElement(id)
    \/ \E id \in CanvasIds \cup {MissingId} : GetCanvasElements(id)
    \/ \E id \in CanvasIds \cup {MissingId} : GetChatMessages(id)
    \/ Tick

Spec == Init /\ [][Next]_vars

----------------------------------------------------------------------------

(* aiGenerateElements step by step: two calls in flight *)

\* The callers of the two calls.
Callers == {"A", "B"}

\* A database the server can be in when the calls arrive: the default canvas
\* u1 holding a rectangle u2, and the small canvas u3 holding nothing.
StoredCanvases ==
    { canvasValues([name |-> "Canvas"], "u1") @@ [createdAt |-> 0, updatedAt |-> 0],
      canvasValues([name |-> "Small", width |-> 100500, height |-> 60500], "u3")
          @@ [createdAt |-> 0, updatedAt |-> 0] }

StoredElements ==
    { elementValues([type |-> "rectangle", canvasId |-> "u1",
                     position |-> [x |-> 10005, y |-> Milli(20)],
                     dimensions |-> [width |-> Milli(30), height |-> Milli(40)],
                     fill |-> <<[color |-> "#EF4444", opacity |-> Milli(1)]>>], "u2")
          @@ [createdAt |-> 0, updatedAt |-> 0] }

\* The requests of the two calls: each prompt for each canvas with no
\* contextElementIds, with ids that resolve on canvas u1 only, and with an id
\* that resolves nowhere; and a request for a canvas that does not exist.
ConcurrentRequests ==
    { [canvasId |-> id, prompt |-> p] : id \in {"u1", "u3"}, p \in RequestPrompts }
    \cup { [canvasId |-> id, prompt |-> p, contextElementIds |-> ids]
           : id \in {"u1", "u3"}, p \in RequestPrompts,
             ids \in { <<"u2", MissingId>>, <<MissingId>> } }
    \cup { [canvasId |-> MissingId, prompt |-> AddARedCircle] }

\* A call that has not yet run its first statement.
arrived(input) ==
    [ input |-> input, pc |-> "canvas",
      canvasWidth |-> 0, canvasHeight |-> 0,
      elementsToCreate |-> <<>>, contextElements |-> <<>>,
      adjustedElements |-> <<>>, createdElements |-> <<>>,
      error |-> <<>>,
      canvasesAtStart |-> {}, elementsAtStart |-> {} ]

InitConcurrent ==
    /\ prompt = <<>>
    /\ canvasWidth = 0
    /\ canvasHeight = 0
    /\ contextElements = <<>>
    /\ elementsToCreate = <<>>
    /\ adjustedElements = <<>>
    /\ pc = "idle"
    /\ canvasTable = StoredCanvases
    /\ canvasElementsTable = StoredElements
    /\ chatMessagesTable = {}
    /\ now = 0
    /\ issued = {"u1", "u2", "u3"}
    /\ response = [op |-> "none"]
    /\ served = 0
    /\ calls \in [Callers -> {arrived(input) : input \in ConcurrentRequests}]

\* await db.select().from(canvasTable)...; then, with no further await,
\* parsePrompt and, when the request names no context, the adjustment.
CanvasLookup(c) ==
    /\ calls[c].pc = "canvas"
    /\ LET call == calls[c]
           input == call.input
           canvas == selectCanvas(input.canvasId)
       IN IF canvas = {}
          THEN calls' = [calls EXCEPT ![c] =
                   [call EXCEPT !.pc = "failed",
                                !.error = <<"Canvas with ID ", input.canvasId, " not found">>,
                                !.canvasesAtStart = canvasTable,
                                !.elementsAtStart = canvasElementsTable]]
          ELSE \E canvasData \in canvas :
                 LET width == parseFloat(canvasData.width)
                     height == parseFloat(canvasData.height)
                     drafts == parsedPrompt[input.prompt][width][height]
                     adjusted == adjustElementsForContext(drafts, <<>>, width, height)
                 IN calls' = [calls EXCEPT ![c] =
                        [call EXCEPT !.canvasWidth = width,
                                     !.canvasHeight = height,
                                     !.elementsToCreate = drafts,
                                     !.adjustedElements =
                                         IF hasContextIds(input) THEN <<>> ELSE adjusted,
                                     !.pc = IF hasContextIds(input) THEN "context"
                                            ELSE IF adjusted = <<>> THEN "done"
                                            ELSE "insert",
                                     !.canvasesAtStart = canvasTable,
                                     !.elementsAtStart = canvasElementsTable]]
    /\ UNCHANGED <<canvasTable, canvasElementsTable, chatMessagesTable,
                   now, issued, response, served>>
    /\ UNCHANGED interpreterVars

\* await db.select().from(canvasElementsTable)...; then the filter, the
\* conversion and the adjustment.
ContextLookup(c) ==
    /\ calls[c].pc = "context"
    /\ LET call == calls[c]
       IN \E context \in Orderings(selectContext(canvasElementsTable, call.input)) :
            LET adjusted == adjustElementsForContext(call.elementsToCreate, context,
                                                     call.canvasWidth, call.canvasHeight)
            IN calls' = [calls EXCEPT ![c] =
                   [call EXCEPT !.contextElements = context,
                                !.adjustedElements = adjusted,
                                !.pc = IF adjusted = <<>> THEN "done" ELSE "insert"]]
    /\ UNCHANGED <<canvasTable, canvasElementsTable, chatMessagesTable,
                   now, issued, response, served>>
    /\ UNCHANGED interpreterVars

\* One turn of the loop: randomUUID(), await db.insert(...).returning(), push.
InsertElement(c) ==
    /\ calls[c].pc = "insert"
    /\ LET call == calls[c]
           done == Len(call.createdElements)
           elementId == randomUUID(issued)
           row == insertedAt(generatedValues(call.adjustedElements[done + 1],
                                             elementId, call.input.canvasId))
       IN /\ canvasElementsTable' = canvasElementsTable \cup {row}
          /\ issued' = issued \cup {elementId}
          /\ calls' = [calls EXCEPT ![c] =
                 [call EXCEPT !.createdElements =
                                  Append(call.createdElements, convertToCanvasElement(row)),
                              !.pc = IF done + 1 = Len(call.adjustedElements)
                                     THEN "done" ELSE "insert"]]
    /\ UNCHANGED <<canvasTable, chatMessagesTable, now, response, served>>
    /\ UNCHANGED interpreterVars

NextConcurrent ==
    \/ \E c \in Callers : CanvasLookup(c)
    \/ \E c \in Callers : ContextLookup(c)
    \/ \E c \in Callers : InsertElement(c)

SpecConcurrent == InitConcurrent /\ [][NextConcurrent]_vars

----------------------------------------------------------------------------
(* updateElement and updateCanvas step by step: two calls in flight *)

\* The updates of the two calls: the updateElement inputs for the stored
\* element and for no element, the updateCanvas inputs for the stored
\* canvases and for no canvas, and a zoom, pan and background for canvas u1.
ConcurrentUpdates ==
    { [op |-> "updateElement", input |-> input] : input \in UpdateElementInputs }
    \cup { [op |-> "updateCanvas", input |-> input] : input \in UpdateCanvasInputs }
    \cup { [op |-> "updateCanvas",
            input |-> [id |-> "u1", zoom |-> 1500, panX |-> Milli(20),
                       backgroundColor |-> "#000000"]] }

\* An update call that has not yet run its first statement.
requested(update) ==
    [ op |-> update.op, input |-> update.input, pc |-> "build",
      updateData |-> Empty, result |-> {}, returned |-> <<>>, error |-> <<>> ]

InitUpdates ==
    /\ prompt = <<>>
    /\ canvasWidth = 0
    /\ canvasHeight = 0
    /\ contextElements = <<>>
    /\ elementsToCreate = <<>>
    /\ adjustedElements = <<>>
    /\ pc = "idle"
    /\ canvasTable = StoredCanvases
    /\ canvasElementsTable = StoredElements
    /\ chatMessagesTable = {}
    /\ now = 0
    /\ issued = {"u1", "u2", "u3"}
    /\ response = [op |-> "none"]
    /\ served = 0
    /\ calls \in [Callers -> {requested(update) : update \in ConcurrentUpdates}]

\* const updateData = { updatedAt: new Date() }; if (input.x !== undefined) ...
\* The statements before the await.
BuildUpdateData(c) ==
    /\ calls[c].pc = "build"
    /\ LET call == calls[c]
       IN calls' = [calls EXCEPT ![c] =
              [call EXCEPT !.updateData = IF call.op = "updateElement"
                                           THEN elementUpdateData(call.input)
                                           ELSE canvasUpdateData(call.input),
                           !.pc = "update"]]
    /\ UNCHANGED <<canvasTable, canvasElementsTable, chatMessagesTable,
                   now, issued, response, served>>
    /\ UNCHANGED interpreterVars

\* await db.update(table).set(updateData).where(eq(table.id, input.id))
\* .returning(): the one UPDATE statement, which the database runs as a unit.
ExecuteUpdate(c) ==
    /\ calls[c].pc = "update"
    /\ LET call == calls[c]
           table == IF call.op = "updateElement" THEN canvasElementsTable ELSE canvasTable
           matched == {row \in table : row.id = call.input.id}
           result == {setColumns(row, call.updateData) : row \in matched}
       IN /\ IF call.op = "updateElement"
             THEN /\ canvasElementsTable' = (canvasElementsTable \ matched) \cup result
                  /\ UNCHANGED canvasTable
             ELSE /\ canvasTable' = (canvasTable \ matched) \cup result
                  /\ UNCHANGED canvasElementsTable
          /\ calls' = [calls EXCEPT ![c] = [call EXCEPT !.result = result, !.pc = "return"]]
    /\ UNCHANGED <<chatMessagesTable, now, issued, response, served>>
    /\ UNCHANGED interpreterVars

\* if (result.length === 0) throw ...; return the converted row.
ReturnUpdated(c) ==
    /\ calls[c].pc = "return"
    /\ LET call == calls[c]
       IN IF call.result = {}
          THEN calls' = [calls EXCEPT ![c] =
                   [call EXCEPT !.pc = "failed",
                                !.error = <<IF call.op = "updateElement"
                                            THEN "Element with id " ELSE "Canvas with id ",
                                            call.input.id, " not found">>]]
          ELSE \E row \in call.result :
                 calls' = [calls EXCEPT ![c] =
                     [call EXCEPT !.pc = "done",
                                  !.returned = <<IF call.op = "updateElement"
                                                 THEN convertToCanvasElement(row)
                                                 ELSE convertCanvas(row)>>]]
    /\ UNCHANGED <<canvasTable, canvasElementsTable, chatMessagesTable,
                   now, issued, response, served>>
    /\ UNCHANGED interpreterVars

NextUpdates ==
    \/ \E c \in Callers : BuildUpdateData(c)
    \/ \E c \in Callers : ExecuteUpdate(c)
    \/ \E c \in Callers : ReturnUpdated(c)
    \/ Tick

SpecUpdates == InitUpdates /\ [][NextUpdates]_vars

----------------------------------------------------------------------------

(* What the claims speak of, stated without the interpreter's operators *)

\* k occurs in s, letter case ignored: some window of s spells k with each
\* letter in either case. k is lower case.
upperCaseOf ==
    [c \in {LowerCaseLetters[i] : i \in 1..26} |->
        UpperCaseLetters[CHOOSE i \in 1..26 : LowerCaseLetters[i] = c]]

UpperOf(c) == IF c \in DOMAIN upperCaseOf THEN upperCaseOf[c] ELSE c

ContainsIgnoringCase(s, k) ==
    \E i \in 0..(Len(s) - Len(k)) :
        \A j \in 1..Len(k) : s[i + j] = k[j] \/ s[i + j] = UpperOf(k[j])

\* The type-detection rules (a) to (d) of the specification.
RuleRectangle(s) ==
    \/ ContainsIgnoringCase(s, kwRectangle)
    \/ ContainsIgnoringCase(s, kwBox)
    \/ ContainsIgnoringCase(s, kwSquare)

RuleCircle(s) ==
    ContainsIgnoringCase(s, kwCircle) \/ ContainsIgnoringCase(s, kwRound)

RuleLine(s) == ContainsIgnoringCase(s, kwLine)

RuleText(s) ==
    \/ ContainsIgnoringCase(s, kwText)
    \/ ContainsIgnoringCase(s, kwLabel)
    \/ ContainsIgnoringCase(s, kwTitle)

\* The first rule that matches, in the order (a), (b), (c), (d), (e).
MatchedRule(s) ==
    IF RuleRectangle(s) THEN "a"
    ELSE IF RuleCircle(s) THEN "b"
    ELSE IF RuleLine(s) THEN "c"
    ELSE IF RuleText(s) THEN "d"
    ELSE "e"

TypeOfRule(r) ==
    IF r = "a" THEN "rectangle"
    ELSE IF r = "b" THEN "circle"
    ELSE IF r = "c" THEN "line"
    ELSE IF r = "d" THEN "text"
    ELSE "rectangle"

\* The run has ended: elementsToCreate holds parsePrompt's result and
\* adjustedElements the final one.
Done == pc = "done"

----------------------------------------------------------------------------
(* C1 *)

\* C1: for every prompt, generation yields exactly one element, and its type
\* is the type of the first matching rule in the order rectangle/box/square,
\* circle/round, line, text/label/title, default rectangle; matching ignores
\* letter case and the position of the keywords in the prompt.
C1_TypeByFirstMatchingRule ==
    Done =>
      LET type == TypeOfRule(MatchedRule(prompt))
      IN /\ Len(elementsToCreate) = 1
         /\ elementsToCreate[1].type = type
         /\ Len(adjustedElements) = 1
         /\ adjustedElements[1].type = type

\* C1's case: a prompt whose text keyword comes before its rectangle keyword,
\* in upper case, has been interpreted: one rectangle came out.
C1_Witness ==
    /\ Done
    /\ prompt = kwText \o <<"B","O","X">>
    /\ Len(adjustedElements) = 1
    /\ adjustedElements[1].type = "rectangle"

----------------------------------------------------------------------------
(* C2 *)

\* An element as the interpreter builds them: one of the four types at a
\* numeric position.
WellFormed(e) ==
    /\ e.type \in {"rectangle", "circle", "line", "text"}
    /\ e.position.x \in Int
    /\ e.position.y \in Int

\* C2: the interpreter is total: for every prompt, the empty one included,
\* and every canvas size it returns exactly one well-formed element (no
\* input makes an operation of it undefined); and a prompt with none of the
\* type keywords yields exactly one default rectangle: 150 x 100, positioned
\* at (canvasWidth/2 - 75, canvasHeight/2 - 50), fill #3B82F6, stroke colour
\* #1E40AF, borderRadius 0.
C2_TotalWithDefaultRectangle ==
    Done =>
      /\ Len(elementsToCreate) = 1 /\ WellFormed(elementsToCreate[1])
      /\ Len(adjustedElements) = 1 /\ WellFormed(adjustedElements[1])
      /\ MatchedRule(prompt) = "e" =>
            LET e == elementsToCreate[1]
            IN /\ e.type = "rectangle"
               /\ e.dimensions = [width |-> 150000, height |-> 100000]
               /\ 2 * e.position.x = canvasWidth - 150000
               /\ 2 * e.position.y = canvasHeight - 100000
               /\ e.fill.color = "#3B82F6"
               /\ e.stroke.color = "#1E40AF"
               /\ e.rectangleProps.borderRadius = 0
               /\ contextElements = <<>> => adjustedElements = elementsToCreate

\* C2's case: the empty prompt has been interpreted and the default
\* rectangle came out.
C2_Witness ==
    /\ Done
    /\ prompt = <<>>
    /\ contextElements = <<>>
    /\ Len(adjustedElements) = 1
    /\ adjustedElements[1].stroke.color = "#1E40AF"

----------------------------------------------------------------------------
(* C3, C4 *)

\* The ten named colours of the claims, in palette order.
NamedColours ==
    << [name |-> <<"r","e","d">>,             hex |-> "#EF4444"],
       [name |-> <<"b","l","u","e">>,         hex |-> "#3B82F6"],
       [name |-> <<"g","r","e","e","n">>,     hex |-> "#10B981"],
       [name |-> <<"y","e","l","l","o","w">>, hex |-> "#F59E0B"],
       [name |-> <<"p","u","r","p","l","e">>, hex |-> "#8B5CF6"],
       [name |-> <<"p","i","n","k">>,         hex |-> "#EC4899"],
       [name |-> <<"o","r","a","n","g","e">>, hex |-> "#F97316"],
       [name |-> <<"g","r","a","y">>,         hex |-> "#6B7280"],
       [name |-> <<"b","l","a","c","k">>,     hex |-> "#000000"],
       [name |-> <<"w","h","i","t","e">>,     hex |-> "#FFFFFF"] >>

\* The colour names the prompt contains, as indices of the palette.
ColoursNamed(s) ==
    { i \in 1..Len(NamedColours) : ContainsIgnoringCase(s, NamedColours[i].name) }

\* The colour of an element: its stroke colour for a line, else its fill colour.
ElementColour(e) == IF e.type = "line" THEN e.stroke.color ELSE e.fill.color

\* C3 as stated: whenever the prompt contains one of the ten colour names the
\* generated element's colour is that colour's hex value, and it is #3B82F6
\* when the prompt contains no colour name.
C3_Original ==
    Done =>
      LET named == ColoursNamed(prompt)
      IN /\ \A i \in named :
               ElementColour(adjustedElements[1]) = NamedColours[i].hex
         /\ named = {} => ElementColour(adjustedElements[1]) = "#3B82F6"

\* C3 as amended: for a prompt that matches a type keyword, whenever the
\* prompt contains one of the ten colour names and no colour name that comes
\* earlier in the palette, the generated element's colour is that colour's
\* hex value; and it is #3B82F6 when the prompt contains no colour name.
C3_ColourOfFirstPaletteName ==
    Done =>
      LET named == ColoursNamed(prompt)
      IN /\ \A i \in named :
               (MatchedRule(prompt) /= "e" /\ \A j \in named : i <= j)
               => ElementColour(adjustedElements[1]) = NamedColours[i].hex
         /\ named = {} => ElementColour(adjustedElements[1]) = "#3B82F6"

\* C3's case: a box prompt that names gray, then black, came out gray.
C3_Witness ==
    /\ Done
    /\ prompt = <<"g","r","a","y"," ","b","o","x">> \o <<"b","l","a","c","k">>
    /\ adjustedElements[1].type = "rectangle"
    /\ adjustedElements[1].fill.color = "#6B7280"

\* C4: when the lower-cased prompt contains several palette colour names, the
\* colour resolver returns the hex of the name that comes first in the
\* palette order, whatever the order of the names in the prompt; that hex is
\* the colour of the element a type keyword produces.
C4_PaletteOrderWins ==
    Done =>
      LET named == ColoursNamed(prompt)
      IN Cardinality(named) >= 2 =>
           \A i \in named :
             (\A j \in named : i <= j) =>
               /\ getColorFromPrompt(toLowerCase(prompt)) = NamedColours[i].hex
               /\ MatchedRule(prompt) /= "e" =>
                     ElementColour(adjustedElements[1]) = NamedColours[i].hex

\* C4's case: the prompt names white before pink, and the text element that
\* came out is pink, the earlier colour of the palette.
C4_Witness ==
    /\ Done
    /\ prompt = <<"w","h","i","t","e">> \o <<"p","i","n","k"," ","t","e","x","t">>
    /\ adjustedElements[1].type = "text"
    /\ adjustedElements[1].fill.color = "#EC4899"

----------------------------------------------------------------------------
(* C5 *)

\* What C5 says of a rectangle e: its size by 'square', its position the
\* canvas midpoint minus half its size, its borderRadius by 'rounded'.
RectangleAsClaimed(e) ==
    /\ e.type = "rectangle"
    /\ e.dimensions = IF ContainsIgnoringCase(prompt, kwSquare)
                      THEN [width |-> 100000, height |-> 100000]
                      ELSE [width |-> 150000, height |-> 100000]
    /\ 2 * e.position.x + e.dimensions.width = canvasWidth
    /\ 2 * e.position.y + e.dimensions.height = canvasHeight
    /\ e.rectangleProps.borderRadius =
          IF ContainsIgnoringCase(prompt, kwRounded) THEN 10000 ELSE 0

\* C5: for every prompt that triggers the rectangle rule the element is
\* 100 x 100 if the prompt contains 'square' and 150 x 100 otherwise, its
\* position with no context is the canvas midpoint minus half that size on
\* each axis, and its borderRadius is 10 if the prompt contains 'rounded' and
\* 0 otherwise.
C5_RectangleGeometry ==
    (Done /\ MatchedRule(prompt) = "a") =>
      /\ RectangleAsClaimed(elementsToCreate[1])
      /\ contextElements = <<>> => RectangleAsClaimed(adjustedElements[1])

\* C5's case: 'rounded' and 'square' with no context: a 100 x 100 rectangle
\* with borderRadius 10.
C5_Witness ==
    /\ Done
    /\ prompt = kwRounded \o kwSquare
    /\ contextElements = <<>>
    /\ adjustedElements[1].dimensions = [width |-> 100000, height |-> 100000]
    /\ adjustedElements[1].rectangleProps.borderRadius = 10000

----------------------------------------------------------------------------
(* C6 *)

Least(a, b) == IF a < b THEN a ELSE b

\* C6: for every line element generation returns, with or without context
\* elements, the endpoints form a horizontal segment of length 150 (y1 = y2,
\* x2 - x1 = 150) and the element's position is the component-wise minimum
\* of its endpoints, (min(x1, x2), min(y1, y2)).
C6_LinePositionIsEndpointMinimum ==
    (Done /\ adjustedElements[1].type = "line") =>
      LET e == adjustedElements[1]
          l == e.lineProps
      IN /\ l.y1 = l.y2
         /\ l.x2 - l.x1 = 150000
         /\ e.position.x = Least(l.x1, l.x2)
         /\ e.position.y = Least(l.y1, l.y2)

----------------------------------------------------------------------------
(* C7 *)

\* C7: with at least one context element the draft at index i (from 0) is
\* shifted by 50 + 20 * i on both axes from its position with no context,
\* whatever the positions, sizes and number of the context elements; with no
\* context element the drafts are returned unmodified.
C7_ContextShift ==
    Done =>
      IF Len(contextElements) >= 1
      THEN /\ Len(adjustedElements) = Len(elementsToCreate)
           /\ \A n \in 1..Len(adjustedElements) :
                /\ adjustedElements[n].position.x =
                      elementsToCreate[n].position.x + 50000 + 20000 * (n - 1)
                /\ adjustedElements[n].position.y =
                      elementsToCreate[n].position.y + 50000 + 20000 * (n - 1)
      ELSE adjustedElements = elementsToCreate

\* C7's case: two context elements, and the draft moved by 50 on both axes.
C7_Witness ==
    /\ Done
    /\ Len(contextElements) = 2
    /\ adjustedElements[1].position.x = elementsToCreate[1].position.x + 50000
    /\ adjustedElements[1].position.y = elementsToCreate[1].position.y + 50000

----------------------------------------------------------------------------
(* C8 *)

\* e's bounding box (the segment, for a line) is centred on the canvas
\* midpoint: twice its centre is the canvas size.
Centred(e) ==
    IF e.type = "line"
    THEN /\ e.lineProps.x1 + e.lineProps.x2 = canvasWidth
         /\ e.lineProps.y1 + e.lineProps.y2 = canvasHeight
    ELSE /\ 2 * e.position.x + e.dimensions.width = canvasWidth
         /\ 2 * e.position.y + e.dimensions.height = canvasHeight

\* C8 as stated: with no context elements, for every prompt and canvas size
\* the element is centred on the canvas midpoint, for all four element types
\* and the default rectangle.
C8_Original ==
    (Done /\ contextElements = <<>>) => Centred(adjustedElements[1])

\* C8 as amended: with no context elements, for every prompt and canvas size
\* a rectangle (default or not), a circle and a line are centred on the
\* canvas midpoint; a text element is not: its position is
\* (canvasWidth/2 - 50, canvasHeight/2).
C8_CentredExceptText ==
    (Done /\ contextElements = <<>>) =>
      LET e == adjustedElements[1]
      IN IF e.type = "text"
         THEN /\ 2 * e.position.x = canvasWidth - 100000
              /\ 2 * e.position.y = canvasHeight
         ELSE Centred(e)

\* C8's case: a circle on the 100.01 x 60.50 canvas with no context, at
\* (0.005, -19.75): centred on (50.005, 30.25).
C8_Witness ==
    /\ Done
    /\ contextElements = <<>>
    /\ canvasWidth = 100010
    /\ adjustedElements[1].type = "circle"
    /\ adjustedElements[1].position = [x |-> 5, y |-> 0 - 19750]

----------------------------------------------------------------------------
(* C9 *)

\* The indices of s where a double- or single-quoted substring starts: a
\* quote character whose next occurrence lies at least two places on, so
\* that the quoted text between the pair is not empty.
QuotedStarts(s) ==
    { i \in 1..Len(s) :
        /\ s[i] \in {"\"", "'"}
        /\ \E j \in (i + 2)..Len(s) :
              s[j] = s[i] /\ \A h \in (i + 1)..(j - 1) : s[h] /= s[i] }

\* The text of the first quoted substring of s.
FirstQuoted(s) ==
    LET i == CHOOSE a \in QuotedStarts(s) : \A b \in QuotedStarts(s) : a <= b
        j == CHOOSE c \in (i + 2)..Len(s) :
                s[c] = s[i] /\ \A h \in (i + 1)..(c - 1) : s[h] /= s[i]
    IN SubSeq(s, i + 1, j - 1)

\* C9: for every prompt that triggers the text rule the content is the first
\* double- or single-quoted substring of the prompt, in its original letter
\* case, and 'Sample Text' when the prompt has no quoted substring; it is
\* never the empty string.
C9_ContentIsFirstQuoted ==
    (Done /\ MatchedRule(prompt) = "d") =>
      LET content == adjustedElements[1].textProps.content
      IN /\ content = IF QuotedStarts(prompt) = {}
                      THEN <<"S","a","m","p","l","e"," ","T","e","x","t">>
                      ELSE FirstQuoted(prompt)
         /\ content /= <<>>

----------------------------------------------------------------------------
(* C10 *)

\* C10: for every prompt that triggers the text rule, fontSize is 24 if the
\* prompt contains 'title', otherwise 20 if it contains 'large', otherwise
\* 16; fontWeight is 700 if it contains 'bold' and 400 otherwise; textAlign
\* is 'left', lineHeight 1.2, and the box is 200 wide and 1.5 times fontSize
\* high.
C10_TextStyle ==
    (Done /\ MatchedRule(prompt) = "d") =>
      \A e \in {elementsToCreate[1], adjustedElements[1]} :
        /\ e.type = "text"
        /\ e.textStyle.fontSize =
              IF ContainsIgnoringCase(prompt, kwTitle) THEN 24000
              ELSE IF ContainsIgnoringCase(prompt, kwLarge) THEN 20000
              ELSE 16000
        /\ e.textStyle.fontWeight =
              IF ContainsIgnoringCase(prompt, kwBold) THEN 700 ELSE 400
        /\ e.textStyle.textAlign = "left"
        /\ 10 * e.textStyle.lineHeight = 12 * 1000
        /\ e.dimensions.width = 200000
        /\ 2 * e.dimensions.height = 3 * e.textStyle.fontSize

\* C10's case: 'large' and 'title' together: fontSize 24, a box 36 high.
C10_Witness ==
    /\ Done
    /\ prompt = kwLarge \o kwTitle
    /\ adjustedElements[1].textStyle.fontSize = 24000
    /\ adjustedElements[1].dimensions.height = 36000

----------------------------------------------------------------------------
(* C11 *)

\* C11: for every prompt that triggers the circle rule the element's size is
\* 100 x 100 and, with no context elements, its position is
\* (canvasWidth/2 - 50, canvasHeight/2 - 50); 'Add a red circle' on a
\* 1920 x 1080 canvas gives position (910, 490), size 100 x 100 and fill
\* colour #EF4444.
C11_CircleGeometry ==
    (Done /\ MatchedRule(prompt) = "b") =>
      LET e == adjustedElements[1]
      IN /\ e.type = "circle"
         /\ e.dimensions = [width |-> 100000, height |-> 100000]
         /\ elementsToCreate[1].dimensions = e.dimensions
         /\ contextElements = <<>> =>
              /\ 2 * (e.position.x + 50000) = canvasWidth
              /\ 2 * (e.position.y + 50000) = canvasHeight
         /\ (prompt = AddARedCircle /\ contextElements = <<>>
                /\ canvasWidth = 1920000 /\ canvasHeight = 1080000) =>
              /\ e.position = [x |-> 910000, y |-> 490000]
              /\ e.fill.color = "#EF4444"

\* C11's case: 'Add a red circle' on the 1920 x 1080 canvas with no context
\* came out at (910, 490).
C11_Witness ==
    /\ Done
    /\ prompt = AddARedCircle
    /\ canvasWidth = 1920000
    /\ contextElements = <<>>
    /\ adjustedElements[1].position = [x |-> 910000, y |-> 490000]
    /\ adjustedElements[1].dimensions.width = 100000

----------------------------------------------------------------------------
(* C12 *)

\* The prompt's resolved colour: the hex value of the first palette name the
\* prompt contains, #3B82F6 when it contains none.
ResolvedColour(s) ==
    LET named == ColoursNamed(s)
    IN IF named = {} THEN "#3B82F6"
       ELSE NamedColours[CHOOSE i \in named : \A j \in named : i <= j].hex

\* C12: the resolved prompt colour is the fill colour of keyword-matched
\* rectangles, circles and text elements and the stroke colour of lines; a
\* keyword-matched rectangle or circle always has the fixed stroke (#000000,
\* width 2, opacity 1, cap 'butt', join 'miter'); a line has no fill; and
\* only the default rectangle has the stroke colour #1E40AF.
C12_ColourPlacement ==
    Done =>
      LET rule == MatchedRule(prompt)
          colour == ResolvedColour(prompt)
      IN \A e \in {elementsToCreate[1], adjustedElements[1]} :
           /\ rule \in {"a", "b", "d"} => e.fill.color = colour
           /\ rule = "c" => e.stroke.color = colour /\ "fill" \notin DOMAIN e
           /\ rule \in {"a", "b"} =>
                e.stroke = [color |-> "#000000", width |-> 2000, opacity |-> 1000,
                            cap |-> "butt", join |-> "miter"]
           /\ rule = "e" <=> ("stroke" \in DOMAIN e /\ e.stroke.color = "#1E40AF")

\* C12's case: a green line came out with a green stroke and no fill.
C12_Witness ==
    /\ Done
    /\ prompt = <<"g","r","e","e","n">> \o kwLine
    /\ adjustedElements[1].type = "line"
    /\ adjustedElements[1].stroke.color = "#10B981"
    /\ "fill" \notin DOMAIN adjustedElements[1]

----------------------------------------------------------------------------
(* C13 to C20: the handlers *)

\* A step of the server that serves a handler call.
ServesCall == served' = served + 1

\* The tables are as they were.
TablesUnchanged == UNCHANGED <<canvasTable, canvasElementsTable, chatMessagesTable>>

\* The message says that the record named id was not found.
IsNotFound(message, id) ==
    /\ Len(message) = 3
    /\ message[1] \in {"Canvas with ID ", "Canvas with id ", "Element with id "}
    /\ message[2] = id
    /\ message[3] = " not found"

\* C14: a call of aiGenerateElements, updateCanvas or getCanvas naming a
\* canvas id that no stored canvas has, and a call of updateElement naming an
\* element id that no stored element has, fails with a 'not found' error and
\* leaves every stored canvas, element and chat message unchanged; a failed
\* aiGenerateElements persists no element.
C14_MissingRecordFails ==
    [][ ServesCall =>
          LET r == response'
              missing ==
                  IF r.op = "getCanvas" THEN
                      IF r.input \in CanvasIds THEN <<>> ELSE <<r.input>>
                  ELSE IF r.op = "updateCanvas" THEN
                      IF r.input.id \in CanvasIds THEN <<>> ELSE <<r.input.id>>
                  ELSE IF r.op = "aiGenerateElements" THEN
                      IF r.input.canvasId \in CanvasIds THEN <<>> ELSE <<r.input.canvasId>>
                  ELSE IF r.op = "updateElement" THEN
                      IF r.input.id \in ElementIds THEN <<>> ELSE <<r.input.id>>
                  ELSE <<>>
          IN missing /= <<>> =>
               /\ ~r.ok
               /\ IsNotFound(r.error, missing[1])
               /\ TablesUnchanged
               /\ issued' = issued ]_vars

\* C14's case: with a canvas and an element stored, aiGenerateElements for a
\* canvas that does not exist has thrown.
C14_Witness ==
    /\ response.op = "aiGenerateElements"
    /\ ~response.ok
    /\ response.input.canvasId = MissingId
    /\ canvasTable /= {}
    /\ canvasElementsTable /= {}

\* The last call was aiGenerateElements for a canvas that exists.
GeneratedFor(r) == r.op = "aiGenerateElements" /\ r.input.canvasId \in CanvasIds

\* The ids a request names as context.
NamedIds(input) ==
    IF "contextElementIds" \in DOMAIN input
    THEN {input.contextElementIds[i] : i \in 1..Len(input.contextElementIds)}
    ELSE {}

\* The position a stored draft is read back with.
ReadBack(position) ==
    [x |-> parseFloat(numeric(position.x)), y |-> parseFloat(numeric(position.y))]

\* C15: for an existing canvas and any contextElementIds, aiGenerateElements
\* succeeds and returns exactly one element, which is stored; and when none of
\* the ids is the id of an element of the canvas, the element's position is
\* the one the request gets with no context at all (the unshifted draft's).
C15_UnresolvedContextIgnored ==
    GeneratedFor(response) =>
      LET input == response.input
          canvas == CHOOSE c \in canvasTable : c.id = input.canvasId
          plain == parsedPrompt[input.prompt][parseFloat(canvas.width)][parseFloat(canvas.height)]
      IN /\ response.ok
         /\ Len(response.value) = 1
         /\ \E row \in canvasElementsTable :
                convertToCanvasElement(row) = response.value[1]
         /\ (\A row \in canvasElementsTable :
                row.id \in NamedIds(input) => row.canvasId /= input.canvasId)
            => response.value[1].position = ReadBack(plain[1].position)

\* C15's case: a request naming an element of another canvas and the id of
\* no record has returned its element.
C15_Witness ==
    /\ GeneratedFor(response)
    /\ response.ok
    /\ MissingId \in NamedIds(response.input)
    /\ \E row \in canvasElementsTable :
          row.id \in NamedIds(response.input) /\ row.canvasId /= response.input.canvasId
    /\ Len(response.value) = 1

\* The stored rows of the elements a call returned.
RowsOf(returned) ==
    {row \in canvasElementsTable :
        \E i \in 1..Len(returned) : returned[i].id = row.id}

\* C16: every element generation produces satisfies the shape invariant: an
\* element of type line has no size (no dimensions as returned, width and
\* height NULL as stored), and an element of another type that has a fill has
\* a size with positive width and height.
C16_ShapeInvariant ==
    (GeneratedFor(response) /\ response.ok) =>
      /\ RowsOf(response.value) /= {}
      /\ \A i \in 1..Len(response.value) :
            LET e == response.value[i]
            IN /\ e.type = "line" => "dimensions" \notin DOMAIN e
               /\ (e.type /= "line" /\ "fill" \in DOMAIN e) =>
                     /\ "dimensions" \in DOMAIN e
                     /\ e.dimensions.width > 0
                     /\ e.dimensions.height > 0
      /\ \A row \in RowsOf(response.value) :
            /\ row.type = "line" =>
                  "width" \notin DOMAIN row /\ "height" \notin DOMAIN row
            /\ (row.type /= "line" /\ "fill" \in DOMAIN row) =>
                  /\ "width" \in DOMAIN row /\ "height" \in DOMAIN row
                  /\ row.width > 0
                  /\ row.height > 0

\* C16's case: a generated line is stored with no width and no height.
C16_Witness ==
    /\ GeneratedFor(response)
    /\ response.ok
    /\ response.value[1].type = "line"
    /\ \E row \in RowsOf(response.value) : "width" \notin DOMAIN row

\* No two rows of the table share an id.
UniqueIds(table) == \A r1, r2 \in table : r1.id = r2.id => r1 = r2

\* C17: every element aiGenerateElements persists has the request's canvasId
\* and an id that no other stored element has; and no two stored canvases,
\* no two stored elements and no two stored chat messages share an id.
C17_IdentityAtPersistence ==
    /\ (GeneratedFor(response) /\ response.ok) =>
          /\ \A i \in 1..Len(response.value) :
                /\ response.value[i].canvasId = response.input.canvasId
                /\ Cardinality({row \in canvasElementsTable :
                                   row.id = response.value[i].id}) = 1
          /\ \A row \in RowsOf(response.value) :
                row.canvasId = response.input.canvasId
    /\ UniqueIds(canvasTable)
    /\ UniqueIds(canvasElementsTable)
    /\ UniqueIds(chatMessagesTable)

\* C17's case: a generated element is stored beside another element of the
\* same canvas, and a chat message is stored too.
C17_Witness ==
    /\ GeneratedFor(response)
    /\ response.ok
    /\ \E row \in canvasElementsTable :
          /\ row.id /= response.value[1].id
          /\ row.canvasId = response.input.canvasId
    /\ chatMessagesTable /= {}

\* C18: a successful aiGenerateElements call adds exactly one element to the
\* store and changes nothing else: every element stored before, every canvas
\* and every chat message is as it was.
C18_GenerationFrame ==
    [][ (ServesCall /\ response'.op = "aiGenerateElements" /\ response'.ok) =>
          /\ canvasTable' = canvasTable
          /\ chatMessagesTable' = chatMessagesTable
          /\ canvasElementsTable \subseteq canvasElementsTable'
          /\ Cardinality(canvasElementsTable' \ canvasElementsTable) = 1 ]_vars

\* C18's case: a call naming a stored element as context has returned, with
\* that element and a chat message in the store.
C18_Witness ==
    /\ GeneratedFor(response)
    /\ response.ok
    /\ \E row \in canvasElementsTable :
          row.id \in NamedIds(response.input) /\ row.canvasId = response.input.canvasId
    /\ chatMessagesTable /= {}
    /\ Cardinality(canvasElementsTable) = 2

\* The properties of an element that generation decides.
GeneratedProperties ==
    {"type", "position", "dimensions"} \cup JsonColumns

Generated(e) == Restrict(e, GeneratedProperties \cap DOMAIN e)

\* What the request produces when it runs alone against the canvases and
\* elements given: the elements it returns.
ProducedAlone(input, canvasRows, elementRows) ==
    LET canvasData == CHOOSE c \in canvasRows : c.id = input.canvasId
        width == parseFloat(canvasData.width)
        height == parseFloat(canvasData.height)
        context == CHOOSE order \in Orderings(IF hasContextIds(input)
                                               THEN selectContext(elementRows, input)
                                               ELSE {}) : TRUE
        adjusted == adjustElementsForContext(parsedPrompt[input.prompt][width][height],
                                             context, width, height)
    IN [i \in 1..Len(adjusted) |->
           convertToCanvasElement(
               insertedAt(generatedValues(adjusted[i], MissingId, input.canvasId)))]

\* C19: under every interleaving of the canvas lookups, context lookups and
\* inserts of two aiGenerateElements calls, each call that finds its canvas
\* returns exactly one element, the one it inserted (it is stored, and the
\* other call did not return it), and its type, position, size and style are
\* those the same request produces alone against the canvases and elements
\* stored when the call ran its first statement.
C19_ConcurrentCallsIndependent ==
    \A c \in DOMAIN calls :
      calls[c].pc = "done" =>
        LET call == calls[c]
            alone == ProducedAlone(call.input, call.canvasesAtStart, call.elementsAtStart)
        IN /\ Len(call.createdElements) = 1
           /\ \E row \in canvasElementsTable :
                  convertToCanvasElement(row) = call.createdElements[1]
           /\ \A d \in DOMAIN calls \ {c} :
                  \A i \in 1..Len(calls[d].createdElements) :
                    calls[d].createdElements[i].id /= call.createdElements[1].id
           /\ call.createdElements[1].canvasId = call.input.canvasId
           /\ Len(alone) = 1
           /\ Generated(call.createdElements[1]) = Generated(alone[1])

\* C19's case: A ran its canvas lookup first and named context on the small
\* canvas; B then inserted its element there (u4) before A looked up its
\* context and inserted (u5).
C19_Witness ==
    /\ calls # <<>>
    /\ calls["A"].pc = "done"
    /\ calls["B"].pc = "done"
    /\ calls["A"].input.canvasId = "u3"
    /\ calls["B"].input.canvasId = "u3"
    /\ hasContextIds(calls["A"].input)
    /\ calls["A"].elementsAtStart = StoredElements
    /\ calls["B"].createdElements[1].id = "u4"
    /\ calls["A"].createdElements[1].id = "u5"

\* The columns an updateElement input supplies.
SuppliedColumns(input) ==
    (DOMAIN input \ {"id", "position", "dimensions"})
    \cup (IF "position" \in DOMAIN input THEN {"positionX", "positionY"} ELSE {})
    \cup (IF "dimensions" \in DOMAIN input THEN {"width", "height"} ELSE {})

\* Every column of canvas_elements.
ElementColumns ==
    {"id", "type", "canvasId", "positionX", "positionY", "width", "height",
     "zIndex", "visible", "locked", "createdAt", "updatedAt"} \cup JsonColumns

\* The rows agree on the column: both NULL, or both the same value.
SameColumn(r1, r2, col) ==
    /\ col \in DOMAIN r1 <=> col \in DOMAIN r2
    /\ col \in DOMAIN r1 => r1[col] = r2[col]

\* C20: updateElement on an existing element changes only the columns the
\* input supplies and updatedAt: id, type, canvasId and createdAt stay, every
\* column not supplied keeps its stored value, and all other elements are
\* unchanged (as are the canvases and chat messages).
C20_UpdateElementFrame ==
    [][ (/\ ServesCall
         /\ response'.op = "updateElement"
         /\ response'.input.id \in ElementIds) =>
          LET input == response'.input
          IN /\ response'.ok
             /\ canvasTable' = canvasTable
             /\ chatMessagesTable' = chatMessagesTable
             /\ \E old \in canvasElementsTable, new \in canvasElementsTable' :
                   /\ old.id = input.id
                   /\ new.id = input.id
                   /\ canvasElementsTable' \ {new} = canvasElementsTable \ {old}
                   /\ DOMAIN new \subseteq ElementColumns
                   /\ \A col \in {"id", "type", "canvasId", "createdAt"} :
                         SameColumn(old, new, col)
                   /\ \A col \in ElementColumns \ (SuppliedColumns(input) \cup {"updatedAt"}) :
                         SameColumn(old, new, col) ]_vars

\* C20's case: with two elements stored, an update supplying a position and
\* a zIndex has returned.
C20_Witness ==
    /\ response.op = "updateElement"
    /\ response.ok
    /\ "position" \in DOMAIN response.input
    /\ Cardinality(canvasElementsTable) = 2
    /\ \E row \in canvasElementsTable :
          /\ row.id = response.input.id
          /\ row.positionY = 556
          /\ "fill" \in DOMAIN row

----------------------------------------------------------------------------
(* C21 to C30: the store *)

\* C21: in updateElement, for each of fill, stroke, textStyle,
\* rectangleProps, lineProps and textProps: an input supplying null stores
\* NULL, an input supplying a value stores that value, and an input leaving
\* the property out leaves the stored value as it was; the element returned
\* shows the same.
C21_NullClearsAbsentKeeps ==
    [][ (/\ ServesCall
         /\ response'.op = "updateElement"
         /\ response'.input.id \in ElementIds) =>
          LET input == response'.input
          IN /\ response'.ok
             /\ \A old \in canvasElementsTable :
                   old.id = input.id =>
                     \E new \in canvasElementsTable' :
                        /\ new.id = input.id
                        /\ \A col \in JsonColumns :
                              /\ SameColumn(new, response'.value, col)
                              /\ IF col \notin DOMAIN input
                                    THEN SameColumn(old, new, col)
                                 ELSE IF input[col] = Null
                                    THEN col \notin DOMAIN new
                                 ELSE col \in DOMAIN new /\ new[col] = input[col][1] ]_vars

\* C21's case: an update with null for fill and values for stroke and
\* textProps has returned for a rectangle or circle, which was stored with a
\* fill: the fill is gone and the stroke is the one supplied.
C21_Witness ==
    /\ response.op = "updateElement"
    /\ response.ok
    /\ "fill" \in DOMAIN response.input
    /\ response.input.fill = Null
    /\ \E row \in canvasElementsTable :
          /\ row.id = response.input.id
          /\ row.type \in {"rectangle", "circle"}
          /\ "fill" \notin DOMAIN row
          /\ row.stroke = response.input.stroke[1]
          /\ "textProps" \in DOMAIN row

\* Every column of canvas.
CanvasColumns ==
    {"id", "name", "description", "width", "height", "backgroundColor",
     "zoom", "panX", "panY", "createdAt", "updatedAt"}

\* The row new is the row old with the columns the updateCanvas input
\* supplies set to the input's values (description NULL for null) and with
\* nothing else but updatedAt changed.
OnlySuppliedChanged(old, new, input) ==
    /\ DOMAIN new \subseteq CanvasColumns
    /\ \A col \in CanvasColumns \ ((DOMAIN input \ {"id"}) \cup {"updatedAt"}) :
          SameColumn(old, new, col)
    /\ \A col \in {"id", "createdAt"} : SameColumn(old, new, col)
    /\ \A col \in {"name", "backgroundColor"} \cap DOMAIN input :
          new[col] = input[col]
    /\ \A col \in {"width", "height", "zoom", "panX", "panY"} \cap DOMAIN input :
          parseFloat(new[col]) = input[col]
    /\ "description" \in DOMAIN input =>
          IF input.description = Null THEN "description" \notin DOMAIN new
          ELSE new.description = input.description[1]

\* C22: updateCanvas on an existing canvas changes only the fields the
\* input supplies (description becomes null when null is supplied) and
\* updatedAt; id and createdAt are preserved, every field not supplied keeps
\* its stored value, no other canvas changes, and the new updatedAt is
\* strictly later than the canvas's previous updatedAt.
C22_UpdateCanvasFrameAndLater ==
    [][ (/\ ServesCall
         /\ response'.op = "updateCanvas"
         /\ response'.input.id \in CanvasIds) =>
          LET input == response'.input
          IN /\ response'.ok
             /\ \E old \in canvasTable, new \in canvasTable' :
                   /\ old.id = input.id
                   /\ new.id = input.id
                   /\ canvasTable' \ {new} = canvasTable \ {old}
                   /\ OnlySuppliedChanged(old, new, input)
                   /\ new.updatedAt > old.updatedAt ]_vars

\* C23: deleteElement removes the element with the given id and no other:
\* all other elements remain stored and unchanged, as do the canvases and the
\* chat messages; when no element has that id the call succeeds and the store
\* is unchanged, so that the same call made again changes nothing.
C23_DeleteElementFrame ==
    [][ (ServesCall /\ response'.op = "deleteElement") =>
          LET elementId == response'.input
          IN /\ response'.ok
             /\ canvasElementsTable' \subseteq canvasElementsTable
             /\ \A el \in canvasElementsTable :
                   el \in canvasElementsTable' <=> el.id /= elementId
             /\ canvasTable' = canvasTable
             /\ chatMessagesTable' = chatMessagesTable
             /\ elementId \notin ElementIds => TablesUnchanged
             /\ (response.op = "deleteElement" /\ response.input = elementId)
                   => TablesUnchanged ]_vars

\* C23's case: deleteElement has returned for the id of an element that was
\* stored, and another element of the same canvas is still stored.
C23_Witness ==
    /\ response.op = "deleteElement"
    /\ response.ok
    /\ response.input \in issued
    /\ response.input \notin ElementIds
    /\ Cardinality(canvasTable) = 1
    /\ canvasElementsTable /= {}

\* C24: getCanvasElements(canvasId) returns exactly the stored elements whose
\* canvasId is the argument, each once, ordered by zIndex ascending and, for
\* equal zIndex, by createdAt ascending; for a canvas id with no elements,
\* also one that names no canvas, it returns the empty sequence and does not
\* fail.
C24_ElementsOfCanvasInOrder ==
    response.op = "getCanvasElements" =>
        LET stored == {el \in canvasElementsTable : el.canvasId = response.input}
            result == response.value
        IN /\ response.ok
           /\ {result[i] : i \in 1..Len(result)}
                 = {convertToCanvasElement(el) : el \in stored}
           /\ Len(result) = Cardinality(stored)
           /\ \A i, j \in 1..Len(result) :
                 i < j => \/ result[i].zIndex < result[j].zIndex
                          \/ /\ result[i].zIndex = result[j].zIndex
                             /\ result[i].createdAt <= result[j].createdAt
           /\ (stored = {} \/ response.input \notin CanvasIds) => result = <<>>

\* C24's case: getCanvasElements has returned two elements, the one created
\* later first because its zIndex is lower.
C24_Witness ==
    /\ response.op = "getCanvasElements"
    /\ Len(response.value) = 2
    /\ response.value[1].zIndex < response.value[2].zIndex
    /\ response.value[1].createdAt > response.value[2].createdAt

\* getChatMessages has returned exactly the stored messages of the canvas it
\* was asked for, each once.
MessagesOfCanvasReturned ==
    LET stored == {m \in chatMessagesTable : m.canvasId = response.input}
        result == response.value
    IN /\ response.ok
       /\ {result[i] : i \in 1..Len(result)} = {convertChatMessage(m) : m \in stored}
       /\ Len(result) = Cardinality(stored)
       /\ stored = {} => result = <<>>

\* C25 as stated: getChatMessages(canvasId) returns exactly the stored chat
\* messages whose canvasId is the argument, and of two consecutive results
\* the earlier one has the later timestamp.
C25_Original ==
    response.op = "getChatMessages" =>
        /\ MessagesOfCanvasReturned
        /\ \A i \in 1..(Len(response.value) - 1) :
              response.value[i].timestamp > response.value[i + 1].timestamp

\* C25, amended: getChatMessages(canvasId) returns exactly the stored chat
\* messages whose canvasId is the argument, newest first: of two consecutive
\* results the earlier one has the later or the same timestamp (messages of
\* one timestamp come in either order); it returns the empty sequence when
\* the canvas has no messages.
C25_MessagesNewestFirst ==
    response.op = "getChatMessages" =>
        /\ MessagesOfCanvasReturned
        /\ \A i \in 1..(Len(response.value) - 1) :
              response.value[i].timestamp >= response.value[i + 1].timestamp

\* C25's case: getChatMessages has returned two messages, the one stored
\* later first.
C25_Witness ==
    /\ response.op = "getChatMessages"
    /\ Len(response.value) = 2
    /\ response.value[1].timestamp > response.value[2].timestamp
    /\ response.value[1].id = "u3"

\* The table has gained exactly one record, with a new id and the canvasId.
OneRecordAdded(before, after, canvasId) ==
    \E new \in after :
       /\ after = before \cup {new}
       /\ new.id \notin {record.id : record \in before}
       /\ new.canvasId = canvasId

\* C26: createElement and createChatMessage require an existing canvas: when
\* no canvas has input.canvasId the call fails with a 'Canvas with id ... not
\* found' error and stores nothing; when the canvas exists the call stores
\* exactly one new record, which carries that canvasId.
C26_CreateRequiresCanvas ==
    [][ (ServesCall /\ response'.op \in {"createElement", "createChatMessage"}) =>
          LET canvasId == response'.input.canvasId
          IN IF canvasId \notin CanvasIds
             THEN /\ ~response'.ok
                  /\ response'.error = <<"Canvas with id ", canvasId, " not found">>
                  /\ TablesUnchanged
             ELSE /\ response'.ok
                  /\ response'.value.canvasId = canvasId
                  /\ canvasTable' = canvasTable
                  /\ IF response'.op = "createElement"
                     THEN /\ OneRecordAdded(canvasElementsTable, canvasElementsTable',
                                            canvasId)
                          /\ chatMessagesTable' = chatMessagesTable
                     ELSE /\ OneRecordAdded(chatMessagesTable, chatMessagesTable',
                                            canvasId)
                          /\ canvasElementsTable' = canvasElementsTable ]_vars

\* C26's case: with a canvas and an element stored, createElement for a
\* canvas that does not exist has thrown.
C26_Witness ==
    /\ response.op = "createElement"
    /\ ~response.ok
    /\ response.input.canvasId = MissingId
    /\ canvasTable /= {}
    /\ canvasElementsTable /= {}

\* C27: createCanvas returns and stores a canvas whose name, description,
\* width, height and backgroundColor are the values the input supplies; a
\* field left out takes its default (description null, width 1920, height
\* 1080, backgroundColor #FFFFFF), and zoom, panX and panY start at 1, 0, 0.
C27_CreateCanvasStoresInput ==
    response.op = "createCanvas" =>
        LET input == response.input
            canvas == response.value
            supplied(field, default) ==
                IF field \in DOMAIN input THEN input[field] ELSE default
        IN /\ response.ok
           /\ \E stored \in canvasTable :
                 stored.id = canvas.id /\ convertCanvas(stored) = canvas
           /\ canvas.name = input.name
           /\ IF "description" \in DOMAIN input /\ input.description /= Null
              THEN /\ "description" \in DOMAIN canvas
                   /\ canvas.description = input.description[1]
              ELSE "description" \notin DOMAIN canvas
           /\ canvas.width = supplied("width", Milli(1920))
           /\ canvas.height = supplied("height", Milli(1080))
           /\ canvas.backgroundColor = supplied("backgroundColor", "#FFFFFF")
           /\ canvas.zoom = Milli(1)
           /\ canvas.panX = Milli(0)
           /\ canvas.panY = Milli(0)

Shifted(position) == [x |-> position.x + Milli(50), y |-> position.y + Milli(50)]

\* C29: aiGenerateElements applies the context shift if and only if at least
\* one id in contextElementIds is the id of an element stored on the canvas
\* named by input.canvasId: the id of an element of another canvas counts as
\* unresolved, and an absent or empty contextElementIds never causes a shift.
C29_ShiftIffResolvedOnCanvas ==
    (GeneratedFor(response) /\ response.ok) =>
      LET input == response.input
          canvas == CHOOSE c \in canvasTable : c.id = input.canvasId
          plain == parsedPrompt[input.prompt][parseFloat(canvas.width)][parseFloat(canvas.height)]
          resolved == \E row \in canvasElementsTable :
                         row.id \in NamedIds(input) /\ row.canvasId = input.canvasId
          position == response.value[1].position
      IN /\ resolved => position = ReadBack(Shifted(plain[1].position))
         /\ ~resolved => position = ReadBack(plain[1].position)
         /\ ReadBack(Shifted(plain[1].position)) /= ReadBack(plain[1].position)

\* C29's case: a request naming an element of its canvas and the id of no
\* record has returned its element, a circle on the 1920 x 1080 canvas,
\* shifted from (910, 490) to (960, 540).
C29_Witness ==
    /\ GeneratedFor(response)
    /\ response.ok
    /\ MissingId \in NamedIds(response.input)
    /\ \E row \in canvasElementsTable :
          row.id \in NamedIds(response.input) /\ row.canvasId = response.input.canvasId
    /\ response.value[1].type = "circle"
    /\ response.value[1].position = [x |-> Milli(960), y |-> Milli(540)]

\* The two calls are updates of one stored record that supply disjoint sets
\* of fields, and both have returned.
DisjointUpdatesDone ==
    /\ \A c \in Callers : calls[c].pc = "done"
    /\ calls["A"].op = calls["B"].op
    /\ calls["A"].input.id = calls["B"].input.id
    /\ (DOMAIN calls["A"].input) \cap (DOMAIN calls["B"].input) = {"id"}

\* The row as stored before the two calls, and as stored now.
RowBefore(call) ==
    CHOOSE row \in StoredElements \cup StoredCanvases : row.id = call.input.id

RowNow(call) ==
    CHOOSE row \in (IF call.op = "updateElement" THEN canvasElementsTable ELSE canvasTable) :
        row.id = call.input.id

\* The columns the call's input supplies.
ColumnsOf(call) ==
    IF call.op = "updateElement" THEN SuppliedColumns(call.input)
    ELSE DOMAIN call.input \ {"id"}

\* The record holds the value the input supplies for the field: read back as
\* the handlers return it, it shows the input's value, and null shows as no
\* value. With exact = FALSE a number is compared as its column keeps it,
\* rounded to two decimals.
HoldsField(row, call, field, exact) ==
    LET input == call.input
        kept(n) == IF exact THEN n ELSE parseFloat(numeric(n))
    IN IF field = "position"
         THEN /\ parseFloat(row.positionX) = kept(input.position.x)
              /\ parseFloat(row.positionY) = kept(input.position.y)
       ELSE IF field = "dimensions"
         THEN /\ parseFloat(row.width) = kept(input.dimensions.width)
              /\ parseFloat(row.height) = kept(input.dimensions.height)
       ELSE IF field \in {"width", "height", "zoom", "panX", "panY"}
         THEN parseFloat(row[field]) = kept(input[field])
       ELSE IF field \in JsonColumns \cup {"description"}
         THEN IF input[field] = Null THEN field \notin DOMAIN row
              ELSE field \in DOMAIN row /\ row[field] = input[field][1]
       ELSE field \in DOMAIN row /\ row[field] = input[field]

\* C30 as stated: when two updateElement calls on one element, or two
\* updateCanvas calls on one canvas, supply disjoint sets of fields and run
\* concurrently, the stored record afterwards holds every field value
\* supplied by either call, and the fields supplied by neither are unchanged.
C30_Original ==
    DisjointUpdatesDone =>
        LET old == RowBefore(calls["A"])
            new == RowNow(calls["A"])
        IN /\ \A c \in Callers : \A field \in DOMAIN calls[c].input \ {"id"} :
                 HoldsField(new, calls[c], field, TRUE)
           /\ \A col \in (ElementColumns \cup CanvasColumns)
                          \ (ColumnsOf(calls["A"]) \cup ColumnsOf(calls["B"])) :
                 SameColumn(old, new, col)

\* C30, amended: under the same conditions, in every interleaving the stored
\* record afterwards holds every field value supplied by either call, a
\* number as its column keeps it (rounded to two decimals), and the fields
\* supplied by neither, other than updatedAt, are unchanged.
C30_NoLostUpdate ==
    DisjointUpdatesDone =>
        LET old == RowBefore(calls["A"])
            new == RowNow(calls["A"])
        IN /\ \A c \in Callers : \A field \in DOMAIN calls[c].input \ {"id"} :
                 HoldsField(new, calls[c], field, FALSE)
           /\ \A col \in (ElementColumns \cup CanvasColumns)
                          \ (ColumnsOf(calls["A"]) \cup ColumnsOf(calls["B"])
                             \cup {"updatedAt"}) :
                 SameColumn(old, new, col)

\* C30's case: two updateElement calls on element u2, one supplying a
\* position and a zIndex and one supplying dimensions, locked and the style
\* properties, have both returned; the call that read the clock later ran
\* its UPDATE first (the stored updatedAt is the earlier reading).
C30_Witness ==
    /\ DisjointUpdatesDone
    /\ calls["A"].op = "updateElement"
    /\ "position" \in DOMAIN calls["A"].input
    /\ "dimensions" \in DOMAIN calls["B"].input
    /\ calls["A"].updateData.updatedAt = <<0>>
    /\ calls["B"].updateData.updatedAt = <<1>>
    /\ RowNow(calls["A"]).updatedAt = 0
    /\ RowNow(calls["A"]).zIndex = 3
    /\ RowNow(calls["A"]).locked

====
